---------------------------- MODULE Spec2Model ----------------------------
(***************************************************************************)
(* Model of the geometry kernel, the sample-grid generator, the            *)
(* prediction aggregator, the crop suggestion service and the polygon      *)
(* branch of analyze_location of geo-agri-analyst/backend/app.             *)
(*                                                                         *)
(* Spec calls each function once, as one step, on the inputs Init draws,   *)
(* and serves two polygon requests of analyze_location concurrently.       *)
(* LatticeSpec runs one call of generate_grid_samples one loop iteration   *)
(* at a time.                                                              *)
(*                                                                         *)
(* Arithmetic.  The program computes in IEEE doubles; the model computes   *)
(* in fixed point on integers, with these units:                           *)
(*   - a coordinate (latitude or longitude) is a whole number of ticks,    *)
(*     TicksPerDegree ticks to the degree;                                 *)
(*   - a projected length is a whole number of decimetres;                 *)
(*   - estimate_polygon_area_km2 is in AreaUnitsPerKm2 units to the km2    *)
(*     (half square decimetres, so that abs(area)/2 loses nothing);        *)
(*   - calculate_polygon_area is in hundredths of a hectare (the value     *)
(*     after round(.., 2));                                                *)
(*   - a distance is in decimetres, a perimeter in metres (the value       *)
(*     after round(.., 3) of kilometres);                                  *)
(*   - a confidence is in thousandths, a percentage in hundredths of a     *)
(*     percent (the values after round(.., 3) and round(.., 2));           *)
(*   - a temperature is in tenths of a degree Celsius, a rainfall in       *)
(*     tenths of a millimetre; the climate, soil and risk scores are in    *)
(*     ten-thousandths, the suitability before rounding in millionths and  *)
(*     the rounded scores in hundredths; money is in rupees, a farm size   *)
(*     in hundredths of a hectare, a return on investment in tenths of a   *)
(*     percent.                                                            *)
(* A division is floor division at that resolution; where the program      *)
(* compares a quotient with a whole number of ticks, flooring the quotient *)
(* does not change the comparison.  Rounding of the doubles themselves     *)
(* (the last bit of a sum) is below the model's resolution: two results    *)
(* that are equal in the model are equal in the program up to the rounding *)
(* of doubles.  Two consequences: a point exactly on an edge is classified *)
(* here by exact arithmetic, while the program's doubles may put it on     *)
(* either side; and a polygon whose exact area is 0 has area 0 here, while *)
(* the program may compute a positive area of the order of 1e-18 km2.      *)
(* Coordinates beyond the range of the ticks are modelled in LatticeSpec   *)
(* only, by the latitude 2^48 degrees, where neighbouring doubles are      *)
(* 2^-4 degree apart and the rounding of a sum is no longer negligible.    *)
(***************************************************************************)
EXTENDS Integers, Sequences, FiniteSets, TLC

VARIABLES
    polygon_points,   \* the polygon argument: a sequence of <<lat, lng>> in ticks
    predictions,      \* the argument of aggregate_predictions: a sequence of dicts
    called,           \* the function that was called ("none" before the call)
    args,             \* the call's other arguments (a record)
    result,           \* what the call returned or raised
    CROP_DATABASE,    \* CropSuggestionService.CROP_DATABASE: a sequence of profiles
    analysis,         \* the analyze_location requests being served, and the
                      \* global _crop_suggestion_service
    lattice           \* the while loops of generate_grid_samples: the position,
                      \* the cursors lat and lng, spacing and sample_points

vars ==
    <<polygon_points, predictions, called, args, result, CROP_DATABASE, analysis,
      lattice>>

-----------------------------------------------------------------------------
(* Bounds of the model *)

\* polygons have at most this many vertices
MaxVertices == 4
\* min_samples ranges over 0 .. MaxMinSamples
MaxMinSamples == 2
\* max_samples ranges over 0 .. MaxMaxSamples
MaxMaxSamples == 3
\* prediction lists drawn from the pool have at most this many entries
MaxPredictions == 4
\* the lists of pairwise distinct classes have up to this many classes
MaxClasses == 32

-----------------------------------------------------------------------------
(* Units and arithmetic helpers *)

TicksPerDegree == 600 * 1000
\* u ten-thousandths of a degree, in ticks
Units(u) == (TicksPerDegree \div 10000) * u
AreaUnitsPerKm2 == 2 * 10000 * 10000      \* half square decimetres to the km2

Min2(a, b) == IF a <= b THEN a ELSE b
Max2(a, b) == IF a >= b THEN a ELSE b
Abs(a) == IF a < 0 THEN -a ELSE a

\* floor(a / b) for b # 0
FloorDiv(a, b) == IF b < 0 THEN (-a) \div (-b) ELSE a \div b

\* num / den rounded to the nearest integer, ties to even (Python's round);
\* num >= 0, den > 0
RoundHalfEven(num, den) ==
    LET q == num \div den
        r == num % den
    IN  IF 2 * r < den THEN q
        ELSE IF 2 * r > den THEN q + 1
        ELSE IF q % 2 = 0 THEN q ELSE q + 1

RECURSIVE IsqrtIn(_, _, _)
\* the largest r in lo .. hi with r * r <= x, given lo * lo <= x
IsqrtIn(x, lo, hi) ==
    IF lo >= hi THEN lo
    ELSE LET mid == (lo + hi + 1) \div 2
         IN  IF mid * mid <= x THEN IsqrtIn(x, mid, hi) ELSE IsqrtIn(x, lo, mid - 1)

\* floor(sqrt(x)) for 0 <= x < 2^30  (math.sqrt)
Isqrt(x) == IsqrtIn(x, 0, 32767)

RECURSIVE SumOf(_, _)
\* sum(p[k] for p in points)
SumOf(points, k) ==
    IF points = <<>> THEN 0 ELSE points[1][k] + SumOf(Tail(points), k)

\* the arithmetic mean of the vertices: (sum(p[0])/len, sum(p[1])/len)
Centroid(points) ==
    <<FloorDiv(SumOf(points, 1), Len(points)), FloorDiv(SumOf(points, 2), Len(points))>>

-----------------------------------------------------------------------------
(* point_in_polygon *)

\* the two y-tests of the ray casting loop: y > min(p1y, p2y) and y <= max(p1y, p2y)
EdgeSpansY(y, p1y, p2y) == y > Min2(p1y, p2y) /\ y <= Max2(p1y, p2y)

\* the x-test against the nearer end of the edge instead of the farther one
LeftOfEdgeBox_min(x, p1x, p2x) == x <= Min2(p1x, p2x)
\* the x-test of the ray casting loop: x <= max(p1x, p2x)
LeftOfEdgeBox(x, p1x, p2x) == x <= Max2(p1x, p2x)

\* the local variable xinters before its first assignment
Unassigned == [bound |-> FALSE, value |-> 0]

RECURSIVE RayCast(_, _, _, _, _, _)
\* the loop `for i in range(n + 1)` from iteration i on, with the locals
\* p1 = (p1x, p1y), inside and xinters as they stand
RayCast(point, points, i, p1, inside, xinters) ==
    LET n == Len(points)
        x == point[1]
        y == point[2]
    IN  IF i > n THEN [raised |-> "none", inside |-> inside]
        ELSE
          LET p2 == points[(i % n) + 1]
              p1x == p1[1]
              p1y == p1[2]
              p2x == p2[1]
              p2y == p2[2]
              reached == EdgeSpansY(y, p1y, p2y) /\ LeftOfEdgeBox(x, p1x, p2x)
              xi == IF p1y # p2y
                      THEN [bound |-> TRUE,
                            value |-> FloorDiv((y - p1y) * (p2x - p1x), p2y - p1y) + p1x]
                      ELSE xinters
          IN  IF ~reached THEN RayCast(point, points, i + 1, p2, inside, xinters)
              ELSE IF p1x = p2x THEN RayCast(point, points, i + 1, p2, ~inside, xi)
              ELSE IF ~xi.bound THEN [raised |-> "UnboundLocalError", inside |-> inside]
              ELSE IF x <= xi.value THEN RayCast(point, points, i + 1, p2, ~inside, xi)
              ELSE RayCast(point, points, i + 1, p2, inside, xi)

\* point_in_polygon(point, polygon_points): polygon_points[0] of an empty list raises
point_in_polygon(point, points) ==
    IF Len(points) = 0 THEN [raised |-> "IndexError", inside |-> FALSE]
    ELSE RayCast(point, points, 0, points[1], FALSE, Unassigned)

-----------------------------------------------------------------------------
(* Projection and areas *)

\* lat_to_m = 111320.0: metres per degree of latitude
lat_to_m == 111320

\* math.cos(math.radians(center_lat)) in millionths, by 1 - x^2/2, the latitude
\* taken to the ten-thousandth of a degree:
\* (pi/180 * 0.0001)^2 / 2 * 10^6 = 1 / 656561
CosMillionths(lat) ==
    LET u == FloorDiv(lat, Units(1)) IN 1000000 - ((u * u) \div 656561)

\* lng_to_m = 111320.0 * math.cos(math.radians(center_lat))
lng_to_m(center_lat) == (lat_to_m * (CosMillionths(center_lat) \div 1000)) \div 1000

\* (p - center) * metres_per_degree, in decimetres
ToDecimetres(d, metres_per_degree) ==
    FloorDiv(d * metres_per_degree, TicksPerDegree \div 10)

\* x_coords = [(p[1] - center_lng) * lng_to_m for p in points]
x_coords(points) ==
    LET c == Centroid(points)
    IN  [i \in 1..Len(points) |-> ToDecimetres(points[i][2] - c[2], lng_to_m(c[1]))]

\* y_coords = [(p[0] - center_lat) * lat_to_m for p in points]
y_coords(points) ==
    LET c == Centroid(points)
    IN  [i \in 1..Len(points) |-> ToDecimetres(points[i][1] - c[1], lat_to_m)]

RECURSIVE ShoelaceFrom(_, _, _)
\* the Shoelace loop from index i on (1-based): area += x[i]*y[j]; area -= x[j]*y[i]
ShoelaceFrom(xs, ys, i) ==
    IF i > Len(xs) THEN 0
    ELSE LET j == (i % Len(xs)) + 1
         IN  xs[i] * ys[j] - xs[j] * ys[i] + ShoelaceFrom(xs, ys, i + 1)

\* the signed Shoelace sum, in square decimetres (twice the signed area)
ShoelaceSum(points) == ShoelaceFrom(x_coords(points), y_coords(points), 1)

\* area = abs(area) / 2.0 dropped its abs
SignedShoelace(points) == ShoelaceSum(points)
\* area = abs(area) / 2.0, kept in half square decimetres
AbsShoelace(points) == Abs(ShoelaceSum(points))

\* estimate_polygon_area_km2(points), in AreaUnitsPerKm2 units to the km2
estimate_polygon_area_km2(points) ==
    IF Len(points) < 3 THEN 0 ELSE AbsShoelace(points)

\* calculate_polygon_area(points): round(area_hectares, 2), in hundredths of a
\* hectare (one hundredth of a hectare is 20000 half square decimetres)
calculate_polygon_area(points) ==
    IF Len(points) < 3 THEN 0 ELSE RoundHalfEven(AbsShoelace(points), 20000)

-----------------------------------------------------------------------------
(* Distance and perimeter *)

\* R = 6371.0 km: one degree of a great circle is 111195 m
MetresPerDegreeOfArc == 111195

\* haversine_distance(lat1, lon1, lat2, lon2) in decimetres.  For the small
\* angles of the model sin(t) = t and asin(t) = t to the model's resolution, so
\* R * 2 * asin(sqrt(a)) is R * sqrt(dlat^2 + cos(lat1) * cos(lat2) * dlon^2).
haversine_distance(lat1, lon1, lat2, lon2) ==
    LET dlat == ToDecimetres(lat2 - lat1, MetresPerDegreeOfArc)
        dlon == ToDecimetres(lon2 - lon1, MetresPerDegreeOfArc)
        c1 == CosMillionths(lat1) \div 1000
        c2 == CosMillionths(lat2) \div 1000
        dlon_c == (((Abs(dlon) * c1) \div 1000) * c2) \div 1000
    IN  Isqrt(dlat * dlat + dlon_c * dlon_c)

RECURSIVE PerimeterFrom(_, _)
\* the loop over the edges from index i on, wrapping to the first point
PerimeterFrom(points, i) ==
    IF i > Len(points) THEN 0
    ELSE LET p1 == points[i]
             p2 == points[(i % Len(points)) + 1]
         IN  haversine_distance(p1[1], p1[2], p2[1], p2[2]) + PerimeterFrom(points, i + 1)

\* calculate_polygon_perimeter(points): round(perimeter, 3), in metres
calculate_polygon_perimeter(points) ==
    IF Len(points) < 2 THEN 0 ELSE RoundHalfEven(PerimeterFrom(points, 1), 10)

-----------------------------------------------------------------------------
(* calculate_polygon_bounds, calculate_optimal_grid_spacing *)

RECURSIVE MinOf(_, _)
MinOf(points, k) ==
    IF Len(points) = 1 THEN points[1][k]
    ELSE Min2(points[1][k], MinOf(Tail(points), k))

RECURSIVE MaxOf(_, _)
MaxOf(points, k) ==
    IF Len(points) = 1 THEN points[1][k]
    ELSE Max2(points[1][k], MaxOf(Tail(points), k))

\* calculate_polygon_bounds(points): (min_lat, max_lat, min_lng, max_lng)
calculate_polygon_bounds(points) ==
    <<MinOf(points, 1), MaxOf(points, 1), MinOf(points, 2), MaxOf(points, 2)>>

\* min_spacing = 0.0005, max_spacing = 0.01 and the default 0.001 degrees
min_spacing == Units(5)
max_spacing == Units(100)
default_spacing == Units(10)

\* calculate_optimal_grid_spacing(polygon_area_km2, target_samples), in ticks:
\* sqrt(area / target) km, divided by 111 km to the degree, clamped.
\* A division by target_samples = 0 raises.
calculate_optimal_grid_spacing(area, target_samples) ==
    IF area <= 0 THEN [raised |-> "none", value |-> default_spacing]
    ELSE IF target_samples = 0 THEN [raised |-> "ZeroDivisionError", value |-> 0]
    ELSE LET spacing_dm == Isqrt((area \div 2) \div target_samples)
             spacing_degrees == (spacing_dm * (TicksPerDegree \div 10000)) \div 111
         IN  [raised |-> "none",
              value |-> Max2(min_spacing, Min2(spacing_degrees, max_spacing))]

\* the tiers of generate_grid_samples that choose target_samples
target_samples_for(area, max_samples, min_samples) ==
    IF area < AreaUnitsPerKm2 \div 100 THEN min_samples
    ELSE IF area < AreaUnitsPerKm2 \div 2 THEN Min2(15, max_samples)
    ELSE IF area < 2 * AreaUnitsPerKm2 THEN Min2(30, max_samples)
    ELSE max_samples

-----------------------------------------------------------------------------
(* generate_grid_samples *)

\* the values a cursor takes: lo, lo + spacing, ... while cursor <= hi
GridAxis(lo, hi, spacing) ==
    [k \in 1..((hi - lo) \div spacing + 1) |-> lo + (k - 1) * spacing]

\* the lattice points in the order the nested while loops visit them
GridCandidates(points, spacing) ==
    LET b == calculate_polygon_bounds(points)
        lats == GridAxis(b[1], b[2], spacing)
        lngs == GridAxis(b[3], b[4], spacing)
        nl == Len(lngs)
    IN  [k \in 1..(Len(lats) * nl) |-> <<lats[((k - 1) \div nl) + 1], lngs[((k - 1) % nl) + 1]>>]

\* the filter dropped: every lattice point is kept
KeepPoint_all(point, points) == TRUE
\* `if point_in_polygon(point, polygon_points)`
KeepPoint(point, points) == point_in_polygon(point, points).inside

\* sample_points after the lattice loops
GridSamplePoints(points, spacing) ==
    SelectSeq(GridCandidates(points, spacing), LAMBDA pt : KeepPoint(pt, points))

\* `if len(sample_points) < min_samples: sample_points.append(centroid)`
WithCentroid(sample_points, points, min_samples) ==
    IF Len(sample_points) < min_samples
      THEN Append(sample_points, Centroid(points))
      ELSE sample_points

\* the first num indices instead of evenly spaced ones
linspace_int_prefix(stop, num) == [k \in 1..num |-> k - 1]
\* np.linspace(0, stop, num, dtype=int) for num >= 0: the 0-based indices
\* floor(k * stop / (num - 1)), the last one being stop itself; [0] for num = 1
linspace_int(stop, num) ==
    IF num = 1 THEN <<0>>
    ELSE [k \in 1..num |-> IF k = num THEN stop ELSE ((k - 1) * stop) \div (num - 1)]

\* `if len(sample_points) > max_samples:` select the evenly spaced indices
LimitSamples(sample_points, max_samples) ==
    IF Len(sample_points) > max_samples
      THEN LET indices == linspace_int(Len(sample_points) - 1, max_samples)
           IN  [k \in 1..max_samples |-> sample_points[indices[k] + 1]]
      ELSE sample_points

\* the spacing generate_grid_samples asks for: the area, its tier, the spacing
GridSpacingFor(points, max_samples, min_samples) ==
    LET area_km2 == estimate_polygon_area_km2(points)
        target_samples == target_samples_for(area_km2, max_samples, min_samples)
    IN  calculate_optimal_grid_spacing(area_km2, target_samples)

\* generate_grid_samples(polygon_points, max_samples, min_samples)
generate_grid_samples(points, max_samples, min_samples) ==
    IF Len(points) < 3 THEN [raised |-> "none", value |-> <<>>]
    ELSE
      LET spacing == GridSpacingFor(points, max_samples, min_samples)
      IN  IF spacing.raised # "none" THEN [raised |-> spacing.raised, value |-> <<>>]
          ELSE [raised |-> "none",
                value |-> LimitSamples(
                              WithCentroid(GridSamplePoints(points, spacing.value),
                                           points, min_samples),
                              max_samples)]

-----------------------------------------------------------------------------
(* generate_grid_samples, one loop iteration at a time *)

\* Coordinates are doubles.  Near the origin of the ticks the neighbouring
\* doubles are far less than a tick apart and sums of ticks are exact.  From
\* 2^48 degrees on they are 2^-4 degree apart (a 53 bit significand), so a
\* polygon there has its latitudes on that raster.  A polygon's latitudes are
\* counted from origin * 2^48 degrees.
Origins == {0, 1}
DoubleGap == TicksPerDegree \div 16

\* `lat += spacing`: the sum rounded to the nearest double
FloatAdd(origin, x, spacing) ==
    IF origin = 0 THEN x + spacing
    ELSE RoundHalfEven(x + spacing, DoubleGap) * DoubleGap

\* the locals of generate_grid_samples before the call
NotCalled(origin) ==
    [origin |-> origin, pc |-> "idle", spacing |-> 0, lat |-> 0, lng |-> 0,
     sample_points |-> <<>>]

-----------------------------------------------------------------------------
(* aggregate_predictions *)

\* dict.get(key, default)
DictGet(d, key, default) == IF key \in DOMAIN d THEN d[key] ELSE default

\* pred.get("land_class", "Unknown") and pred.get("confidence", 0.0)
LandClassOf(pred) == DictGet(pred, "land_class", "Unknown")
ConfidenceOf(pred) == DictGet(pred, "confidence", 0)

\* the position at which the class cls first occurs in preds
FirstOccurrence(preds, cls) ==
    CHOOSE i \in 1..Len(preds) :
        /\ LandClassOf(preds[i]) = cls
        /\ \A j \in 1..(i - 1) : LandClassOf(preds[j]) # cls

RECURSIVE ClassesAt(_, _)
\* the classes of preds at the positions, in the order of the positions
ClassesAt(preds, positions) ==
    IF positions = {} THEN <<>>
    ELSE LET i == CHOOSE p \in positions : \A q \in positions : p <= q
         IN  <<LandClassOf(preds[i])>> \o ClassesAt(preds, positions \ {i})

\* the keys of class_counts in insertion order: each class not in seen, where
\* it first occurs
ClassKeys(preds, seen) ==
    ClassesAt(preds, { FirstOccurrence(preds, c) :
                          c \in { LandClassOf(preds[i]) : i \in 1..Len(preds) } \ seen })

\* class_counts[cls]
ClassCount(preds, cls) ==
    Cardinality({i \in 1..Len(preds) : LandClassOf(preds[i]) = cls})

RECURSIVE ConfidenceSumOver(_, _, _)
\* the sum of the confidences of preds at the positions own, value by value of
\* the confidences in values
ConfidenceSumOver(preds, own, values) ==
    IF values = {} THEN 0
    ELSE LET v == CHOOSE w \in values : TRUE
         IN  v * Cardinality({i \in own : ConfidenceOf(preds[i]) = v})
               + ConfidenceSumOver(preds, own, values \ {v})

\* sum(class_confidences[cls])
ConfidenceSum(preds, cls) ==
    LET own == { i \in 1..Len(preds) : LandClassOf(preds[i]) = cls }
    IN  ConfidenceSumOver(preds, own, { ConfidenceOf(preds[i]) : i \in own })

ConfidenceSumAll(preds) ==
    ConfidenceSumOver(preds, 1..Len(preds), { ConfidenceOf(preds[i]) : i \in 1..Len(preds) })

\* the average over every sample, whatever its class
AvgConfidence_global(preds, cls) == RoundHalfEven(ConfidenceSumAll(preds), Len(preds))
\* round(sum(class_confidences[cls]) / len(class_confidences[cls]), 3)
AvgConfidence(preds, cls) ==
    RoundHalfEven(ConfidenceSum(preds, cls), ClassCount(preds, cls))

\* the percentage cut off after 2 decimals instead of rounded
Percentage_truncated(count, total_samples) == (count * 10000) \div total_samples
\* round((count / total_samples) * 100, 2), in hundredths of a percent
Percentage(count, total_samples) == RoundHalfEven(count * 10000, total_samples)

\* class_distribution before sorting: one entry per key, in insertion order
ClassDistribution(preds) ==
    LET keys == ClassKeys(preds, {})
    IN  [k \in 1..Len(keys) |->
            [cls |-> keys[k],
             percentage |-> Percentage(ClassCount(preds, keys[k]), Len(preds)),
             count |-> ClassCount(preds, keys[k]),
             avg_confidence |-> AvgConfidence(preds, keys[k])]]

RECURSIVE InsertDescending(_, _)
\* e put after every entry of the sorted list whose percentage is >= e's
InsertDescending(sorted, e) ==
    IF sorted = <<>> THEN <<e>>
    ELSE IF sorted[1].percentage >= e.percentage
           THEN <<sorted[1]>> \o InsertDescending(Tail(sorted), e)
           ELSE <<e>> \o sorted

RECURSIVE SortedFrom(_, _, _)
SortedFrom(entries, i, sorted) ==
    IF i > Len(entries) THEN sorted
    ELSE SortedFrom(entries, i + 1, InsertDescending(sorted, entries[i]))

\* sorted(items, key=percentage, reverse=True): stable, equal keys keep their order
SortByPercentage(entries) == SortedFrom(entries, 1, <<>>)

RECURSIVE MaxByCountFrom(_, _, _)
MaxByCountFrom(entries, i, best) ==
    IF i > Len(entries) THEN best
    ELSE MaxByCountFrom(entries, i + 1,
                        IF entries[i].count > entries[best].count THEN i ELSE best)

\* the last of the maximal entries instead of the first
MaxByCount_last(entries) ==
    CHOOSE i \in 1..Len(entries) :
        /\ \A j \in 1..Len(entries) : entries[j].count <= entries[i].count
        /\ \A j \in (i + 1)..Len(entries) : entries[j].count < entries[i].count
\* max(class_counts.items(), key=lambda x: x[1]): the index of the first entry,
\* in insertion order, whose count no other exceeds
MaxByCount(entries) == MaxByCountFrom(entries, 2, 1)

\* sample_count taken from the number of classes instead of len(predictions)
aggregate_predictions_distinct(preds) ==
    LET dist == ClassDistribution(preds)
        dominant == dist[MaxByCount(dist)]
    IN  [dominant_class |-> dominant.cls,
         confidence |-> dominant.avg_confidence,
         class_distribution |-> SortByPercentage(dist),
         sample_count |-> Len(dist),
         area_coverage |-> "multi-sample"]
\* the body of aggregate_predictions after the guard (lines 246-287)
aggregate_predictions_nonempty(preds) ==
    LET dist == ClassDistribution(preds)
        dominant == dist[MaxByCount(dist)]
    IN  [dominant_class |-> dominant.cls,
         confidence |-> dominant.avg_confidence,
         class_distribution |-> SortByPercentage(dist),
         sample_count |-> Len(preds),
         area_coverage |-> "multi-sample"]

\* the `if not predictions` guard missing: max() of an empty sequence raises
aggregate_predictions_unguarded(preds) ==
    IF preds = <<>> THEN [raised |-> "ValueError"]
    ELSE aggregate_predictions_nonempty(preds)
\* aggregate_predictions(predictions)
aggregate_predictions(preds) ==
    IF preds = <<>>
      THEN [dominant_class |-> "Unknown",
            confidence |-> 0,
            class_distribution |-> <<>>,
            sample_count |-> 0]
      ELSE aggregate_predictions_nonempty(preds)

-----------------------------------------------------------------------------
(* crop_suggestion_service.py: the catalog and the contexts                 *)
(*                                                                          *)
(* Units: a latitude is in ticks; a temperature is in tenths of a degree    *)
(* Celsius and a rainfall in tenths of a millimetre; climate, soil and risk *)
(* scores are in ten-thousandths, the combined suitability in millionths;   *)
(* the rounded scores are in hundredths; an amount of money is in whole     *)
(* rupees, a farm size in hundredths of a hectare, a return on investment   *)
(* in tenths of a percent.  The scores are computed exactly and rounded     *)
(* once, ties to even; the program's doubles can round a tie either way.    *)
(* A dict is a function on its keys, and None is the empty dict: the        *)
(* program tests both with `if x:` only.  A value taken from the request's  *)
(* JSON is [num |-> n] for a number and [str |-> s] for a string.           *)

\* CROP_DATABASE as shipped, in the order of the dict
ShippedCatalog ==
    <<
    [crop_id |-> "saffron", name |-> "Saffron", category |-> "Spice",
     avg_yield_kg_per_hectare |-> 8, avg_market_price_inr_per_kg |-> 124500,
     investment_cost_inr_per_hectare |-> 996000, growing_months |-> 6,
     optimal_temp_range |-> <<15, 25>>, min_rainfall_mm |-> 150, max_rainfall_mm |-> 400,
     soil_types |-> <<"loamy", "sandy loam", "well-drained">>,
     climate_zones |-> <<"temperate", "subtropical">>,
     water_requirement |-> "low", labor_intensity |-> "high", risk_level |-> "high"],
    [crop_id |-> "vanilla", name |-> "Vanilla", category |-> "Spice",
     avg_yield_kg_per_hectare |-> 400, avg_market_price_inr_per_kg |-> 49800,
     investment_cost_inr_per_hectare |-> 664000, growing_months |-> 36,
     optimal_temp_range |-> <<21, 32>>, min_rainfall_mm |-> 2000, max_rainfall_mm |-> 3500,
     soil_types |-> <<"rich organic", "loamy", "well-drained">>,
     climate_zones |-> <<"tropical">>,
     water_requirement |-> "high", labor_intensity |-> "very high", risk_level |-> "high"],
    [crop_id |-> "cherry_tomatoes", name |-> "Cherry Tomatoes (Premium)", category |-> "Vegetable",
     avg_yield_kg_per_hectare |-> 40000, avg_market_price_inr_per_kg |-> 249,
     investment_cost_inr_per_hectare |-> 415000, growing_months |-> 4,
     optimal_temp_range |-> <<18, 27>>, min_rainfall_mm |-> 400, max_rainfall_mm |-> 800,
     soil_types |-> <<"loamy", "sandy loam", "fertile">>,
     climate_zones |-> <<"temperate", "subtropical", "tropical">>,
     water_requirement |-> "medium", labor_intensity |-> "medium", risk_level |-> "medium"],
    [crop_id |-> "bell_peppers", name |-> "Bell Peppers (Capsicum)", category |-> "Vegetable",
     avg_yield_kg_per_hectare |-> 35000, avg_market_price_inr_per_kg |-> 207,
     investment_cost_inr_per_hectare |-> 373500, growing_months |-> 5,
     optimal_temp_range |-> <<20, 30>>, min_rainfall_mm |-> 500, max_rainfall_mm |-> 900,
     soil_types |-> <<"loamy", "well-drained">>,
     climate_zones |-> <<"temperate", "subtropical", "tropical">>,
     water_requirement |-> "medium", labor_intensity |-> "medium", risk_level |-> "low"],
    [crop_id |-> "broccoli", name |-> "Broccoli", category |-> "Vegetable",
     avg_yield_kg_per_hectare |-> 20000, avg_market_price_inr_per_kg |-> 166,
     investment_cost_inr_per_hectare |-> 249000, growing_months |-> 3,
     optimal_temp_range |-> <<15, 23>>, min_rainfall_mm |-> 400, max_rainfall_mm |-> 700,
     soil_types |-> <<"fertile", "loamy", "well-drained">>,
     climate_zones |-> <<"temperate">>,
     water_requirement |-> "medium", labor_intensity |-> "medium", risk_level |-> "low"],
    [crop_id |-> "wheat", name |-> "Wheat", category |-> "Grain",
     avg_yield_kg_per_hectare |-> 3000, avg_market_price_inr_per_kg |-> 24,
     investment_cost_inr_per_hectare |-> 41500, growing_months |-> 6,
     optimal_temp_range |-> <<12, 25>>, min_rainfall_mm |-> 300, max_rainfall_mm |-> 750,
     soil_types |-> <<"loamy", "clay loam", "fertile">>,
     climate_zones |-> <<"temperate", "subtropical">>,
     water_requirement |-> "low", labor_intensity |-> "low", risk_level |-> "low"],
    [crop_id |-> "rice", name |-> "Rice", category |-> "Grain",
     avg_yield_kg_per_hectare |-> 4500, avg_market_price_inr_per_kg |-> 37,
     investment_cost_inr_per_hectare |-> 66400, growing_months |-> 5,
     optimal_temp_range |-> <<20, 35>>, min_rainfall_mm |-> 1000, max_rainfall_mm |-> 2500,
     soil_types |-> <<"clay", "clay loam", "waterlogged">>,
     climate_zones |-> <<"tropical", "subtropical">>,
     water_requirement |-> "very high", labor_intensity |-> "medium", risk_level |-> "low"],
    [crop_id |-> "corn", name |-> "Corn (Maize)", category |-> "Grain",
     avg_yield_kg_per_hectare |-> 5000, avg_market_price_inr_per_kg |-> 20,
     investment_cost_inr_per_hectare |-> 49800, growing_months |-> 4,
     optimal_temp_range |-> <<18, 32>>, min_rainfall_mm |-> 500, max_rainfall_mm |-> 1000,
     soil_types |-> <<"loamy", "fertile", "well-drained">>,
     climate_zones |-> <<"temperate", "subtropical", "tropical">>,
     water_requirement |-> "medium", labor_intensity |-> "low", risk_level |-> "low"],
    [crop_id |-> "sunflower", name |-> "Sunflower", category |-> "Oilseed",
     avg_yield_kg_per_hectare |-> 2000, avg_market_price_inr_per_kg |-> 49,
     investment_cost_inr_per_hectare |-> 33200, growing_months |-> 4,
     optimal_temp_range |-> <<20, 30>>, min_rainfall_mm |-> 400, max_rainfall_mm |-> 700,
     soil_types |-> <<"loamy", "sandy loam", "well-drained">>,
     climate_zones |-> <<"temperate", "subtropical">>,
     water_requirement |-> "low", labor_intensity |-> "low", risk_level |-> "low"],
    [crop_id |-> "canola", name |-> "Canola (Rapeseed)", category |-> "Oilseed",
     avg_yield_kg_per_hectare |-> 2500, avg_market_price_inr_per_kg |-> 45,
     investment_cost_inr_per_hectare |-> 37350, growing_months |-> 6,
     optimal_temp_range |-> <<10, 20>>, min_rainfall_mm |-> 400, max_rainfall_mm |-> 650,
     soil_types |-> <<"loamy", "well-drained">>,
     climate_zones |-> <<"temperate">>,
     water_requirement |-> "medium", labor_intensity |-> "low", risk_level |-> "low"],
    [crop_id |-> "strawberries", name |-> "Strawberries", category |-> "Fruit",
     avg_yield_kg_per_hectare |-> 25000, avg_market_price_inr_per_kg |-> 415,
     investment_cost_inr_per_hectare |-> 664000, growing_months |-> 6,
     optimal_temp_range |-> <<15, 26>>, min_rainfall_mm |-> 500, max_rainfall_mm |-> 800,
     soil_types |-> <<"sandy loam", "loamy", "well-drained">>,
     climate_zones |-> <<"temperate", "subtropical">>,
     water_requirement |-> "medium", labor_intensity |-> "high", risk_level |-> "medium"],
    [crop_id |-> "blueberries", name |-> "Blueberries", category |-> "Fruit",
     avg_yield_kg_per_hectare |-> 8000, avg_market_price_inr_per_kg |-> 664,
     investment_cost_inr_per_hectare |-> 996000, growing_months |-> 24,
     optimal_temp_range |-> <<15, 25>>, min_rainfall_mm |-> 600, max_rainfall_mm |-> 1200,
     soil_types |-> <<"acidic", "sandy loam", "well-drained">>,
     climate_zones |-> <<"temperate">>,
     water_requirement |-> "medium", labor_intensity |-> "high", risk_level |-> "medium"],
    [crop_id |-> "soybeans", name |-> "Soybeans", category |-> "Legume",
     avg_yield_kg_per_hectare |-> 2800, avg_market_price_inr_per_kg |-> 41,
     investment_cost_inr_per_hectare |-> 41500, growing_months |-> 5,
     optimal_temp_range |-> <<20, 30>>, min_rainfall_mm |-> 500, max_rainfall_mm |-> 900,
     soil_types |-> <<"loamy", "fertile", "well-drained">>,
     climate_zones |-> <<"temperate", "subtropical">>,
     water_requirement |-> "medium", labor_intensity |-> "low", risk_level |-> "low"],
    [crop_id |-> "chickpeas", name |-> "Chickpeas", category |-> "Legume",
     avg_yield_kg_per_hectare |-> 1500, avg_market_price_inr_per_kg |-> 99,
     investment_cost_inr_per_hectare |-> 33200, growing_months |-> 5,
     optimal_temp_range |-> <<15, 30>>, min_rainfall_mm |-> 300, max_rainfall_mm |-> 600,
     soil_types |-> <<"loamy", "clay loam", "well-drained">>,
     climate_zones |-> <<"temperate", "subtropical", "tropical">>,
     water_requirement |-> "low", labor_intensity |-> "low", risk_level |-> "low"],
    [crop_id |-> "cotton", name |-> "Cotton", category |-> "Fiber",
     avg_yield_kg_per_hectare |-> 1800, avg_market_price_inr_per_kg |-> 149,
     investment_cost_inr_per_hectare |-> 83000, growing_months |-> 6,
     optimal_temp_range |-> <<21, 35>>, min_rainfall_mm |-> 500, max_rainfall_mm |-> 1000,
     soil_types |-> <<"loamy", "clay loam", "fertile">>,
     climate_zones |-> <<"subtropical", "tropical">>,
     water_requirement |-> "medium", labor_intensity |-> "medium", risk_level |-> "medium"],
    [crop_id |-> "sugarcane", name |-> "Sugarcane", category |-> "Industrial",
     avg_yield_kg_per_hectare |-> 70000, avg_market_price_inr_per_kg |-> 4,
     investment_cost_inr_per_hectare |-> 124500, growing_months |-> 12,
     optimal_temp_range |-> <<20, 35>>, min_rainfall_mm |-> 1500, max_rainfall_mm |-> 2500,
     soil_types |-> <<"loamy", "clay loam", "fertile">>,
     climate_zones |-> <<"tropical", "subtropical">>,
     water_requirement |-> "high", labor_intensity |-> "medium", risk_level |-> "low"],
    [crop_id |-> "basil", name |-> "Basil (Fresh)", category |-> "Herb",
     avg_yield_kg_per_hectare |-> 12000, avg_market_price_inr_per_kg |-> 498,
     investment_cost_inr_per_hectare |-> 249000, growing_months |-> 3,
     optimal_temp_range |-> <<18, 30>>, min_rainfall_mm |-> 400, max_rainfall_mm |-> 600,
     soil_types |-> <<"loamy", "well-drained", "fertile">>,
     climate_zones |-> <<"temperate", "subtropical", "tropical">>,
     water_requirement |-> "medium", labor_intensity |-> "high", risk_level |-> "medium"],
    [crop_id |-> "lavender", name |-> "Lavender", category |-> "Herb",
     avg_yield_kg_per_hectare |-> 3000, avg_market_price_inr_per_kg |-> 1245,
     investment_cost_inr_per_hectare |-> 415000, growing_months |-> 24,
     optimal_temp_range |-> <<15, 30>>, min_rainfall_mm |-> 300, max_rainfall_mm |-> 600,
     soil_types |-> <<"sandy loam", "well-drained", "alkaline">>,
     climate_zones |-> <<"temperate", "subtropical">>,
     water_requirement |-> "low", labor_intensity |-> "medium", risk_level |-> "low"]
    >>

None == <<>>
\* `if d:` for a dict or None
Truthy(d) == DOMAIN d # {}
IsNumber(v) == "num" \in DOMAIN v

\* the thresholds of _analyze_climate, _estimate_growing_season and
\* _get_fallback_suggestions, in ticks: 23.5, 35, 45 and 50 degrees
Degrees(d) == TicksPerDegree * d
TropicLimit == TicksPerDegree * 23 + TicksPerDegree \div 2

\* _estimate_growing_season(climate_zone, abs_lat)
_estimate_growing_season(climate_zone, abs_lat) ==
    IF climate_zone = "tropical" THEN 12
    ELSE IF climate_zone = "subtropical" THEN 10
    ELSE IF abs_lat < Degrees(45) THEN 6
    ELSE 4

\* the climate zone of _analyze_climate
ClimateZoneOf(abs_lat) ==
    IF abs_lat < TropicLimit THEN "tropical"
    ELSE IF abs_lat < Degrees(35) THEN "subtropical"
    ELSE IF abs_lat < Degrees(50) THEN "temperate"
    ELSE "cold"

RECURSIVE SumPrecipitation(_)
\* sum(year.get("avg_precipitation_mm", 0) * 12 for year in ndvi_history)
SumPrecipitation(years) ==
    IF years = <<>> THEN 0
    ELSE DictGet(years[1], "avg_precipitation_mm", 0) * 12 + SumPrecipitation(Tail(years))

\* annual_rainfall without the default: 0 when the history has no years
AnnualRainfall_nodefault(crop_history) ==
    IF Truthy(crop_history) /\ "ndvi_history" \in DOMAIN crop_history
         /\ crop_history.ndvi_history # <<>>
      THEN FloorDiv(SumPrecipitation(crop_history.ndvi_history),
                    Len(crop_history.ndvi_history))
      ELSE 0
\* annual_rainfall of _analyze_climate: 800 unless the history has years
AnnualRainfall(crop_history) ==
    IF Truthy(crop_history) /\ "ndvi_history" \in DOMAIN crop_history
         /\ crop_history.ndvi_history # <<>>
      THEN FloorDiv(SumPrecipitation(crop_history.ndvi_history),
                    Len(crop_history.ndvi_history))
      ELSE 8000

\* _analyze_climate(lat, lng, weather_data, crop_history)
_analyze_climate(lat, weather_data, crop_history) ==
    LET abs_lat == Abs(lat)
        climate_zone == ClimateZoneOf(abs_lat)
    IN  [climate_zone |-> climate_zone,
         avg_temperature |-> IF Truthy(weather_data)
                               THEN DictGet(weather_data, "temperature", [num |-> 200])
                               ELSE [num |-> 200],
         annual_rainfall_mm |-> AnnualRainfall(crop_history),
         hemisphere |-> IF lat >= 0 THEN "northern" ELSE "southern",
         growing_season_length |-> _estimate_growing_season(climate_zone, abs_lat)]

\* the characters of the labels and keywords of the model
Spelling(land_class) ==
    CASE land_class = "Forest" ->
             <<"F", "o", "r", "e", "s", "t">>
      [] land_class = "Grassland" ->
             <<"G", "r", "a", "s", "s", "l", "a", "n", "d">>
      [] land_class = "Water" ->
             <<"W", "a", "t", "e", "r">>
      [] land_class = "Urban" ->
             <<"U", "r", "b", "a", "n">>
      [] land_class = "Bare Soil" ->
             <<"B", "a", "r", "e", " ", "S", "o", "i", "l">>
      [] land_class = "Unknown" ->
             <<"U", "n", "k", "n", "o", "w", "n">>
      [] land_class = "Cropland" ->
             <<"C", "r", "o", "p", "l", "a", "n", "d">>
      [] land_class = "Flooded Forest" ->
             <<"F", "l", "o", "o", "d", "e", "d", " ", "F", "o", "r", "e", "s", "t">>
      [] land_class = "Arable Land" ->
             <<"A", "r", "a", "b", "l", "e", " ", "L", "a", "n", "d">>
      [] land_class = "Urban Area" ->
             <<"U", "r", "b", "a", "n", " ", "A", "r", "e", "a">>
      [] land_class = "Water Body" ->
             <<"W", "a", "t", "e", "r", " ", "B", "o", "d", "y">>
      [] land_class = "Wetland" ->
             <<"W", "e", "t", "l", "a", "n", "d">>
      [] land_class = "Barren Land" ->
             <<"B", "a", "r", "r", "e", "n", " ", "L", "a", "n", "d">>
      [] land_class = "Permanent Crops" ->
             <<"P", "e", "r", "m", "a", "n", "e", "n", "t", " ", "C", "r", "o", "p", "s">>
      [] land_class = "Pasture" ->
             <<"P", "a", "s", "t", "u", "r", "e">>
      [] land_class = "Industrial Area" ->
             <<"I", "n", "d", "u", "s", "t", "r", "i", "a", "l", " ", "A", "r", "e", "a">>
      [] land_class = "FOREST" ->
             <<"F", "O", "R", "E", "S", "T">>
      [] land_class = "Cultivated Treeland" ->
             <<"C", "u", "l", "t", "i", "v", "a", "t", "e", "d", " ", "T", "r", "e", "e", "l", "a", "n", "d">>
      [] land_class = "Sparse Shrubs" ->
             <<"S", "p", "a", "r", "s", "e", " ", "S", "h", "r", "u", "b", "s">>
      [] land_class = "Built-up GRASS" ->
             <<"B", "u", "i", "l", "t", "-", "u", "p", " ", "G", "R", "A", "S", "S">>
      [] land_class = "" ->
             <<>>
      [] land_class = "forest" ->
             <<"f", "o", "r", "e", "s", "t">>
      [] land_class = "tree" ->
             <<"t", "r", "e", "e">>
      [] land_class = "crop" ->
             <<"c", "r", "o", "p">>
      [] land_class = "cultivated" ->
             <<"c", "u", "l", "t", "i", "v", "a", "t", "e", "d">>
      [] land_class = "grass" ->
             <<"g", "r", "a", "s", "s">>
      [] land_class = "shrub" ->
             <<"s", "h", "r", "u", "b">>
      [] land_class = "water" ->
             <<"w", "a", "t", "e", "r">>
      [] land_class = "flooded" ->
             <<"f", "l", "o", "o", "d", "e", "d">>
      [] land_class = "urban" ->
             <<"u", "r", "b", "a", "n">>
      [] land_class = "built" ->
             <<"b", "u", "i", "l", "t">>
      [] land_class = "bare" ->
             <<"b", "a", "r", "e">>
      [] land_class = "sparse" ->
             <<"s", "p", "a", "r", "s", "e">>

\* str.lower() on a character
LowerChar(c) ==
    LET upper == <<"A", "B", "C", "D", "E", "F", "G", "H", "I", "J", "K", "L", "M",
                   "N", "O", "P", "Q", "R", "S", "T", "U", "V", "W", "X", "Y", "Z">>
        lower == <<"a", "b", "c", "d", "e", "f", "g", "h", "i", "j", "k", "l", "m",
                   "n", "o", "p", "q", "r", "s", "t", "u", "v", "w", "x", "y", "z">>
    IN  IF \E i \in 1..26 : upper[i] = c
          THEN lower[CHOOSE i \in 1..26 : upper[i] = c]
          ELSE c

\* land_class.lower()
Lower(chars) == [i \in 1..Len(chars) |-> LowerChar(chars[i])]

\* `sub in text` for two strings
Contains(text, sub) ==
    \E i \in 0..(Len(text) - Len(sub)) :
        \A k \in 1..Len(sub) : text[i + k] = sub[k]

\* the keywords of the if/elif chain of _analyze_soil_from_land_class
SoilKeywords ==
    {"forest", "tree", "crop", "cultivated", "grass", "shrub",
     "water", "flooded", "urban", "built", "bare", "sparse"}

\* the land_class labels of the requests
LandClasses == {"Forest", "Grassland", "Water", "Urban", "Bare Soil", "Unknown"}

\* the labels _analyze_soil_from_land_class is called on: the labels of the
\* requests, the class names of the classifier (models.py), the aggregator's
\* "Unknown", labels in other cases, with two keywords, and the empty label
SoilLabels ==
    LandClasses \cup
    {"Cropland", "Flooded Forest", "Arable Land", "Urban Area", "Water Body", "Wetland",
     "Barren Land", "Permanent Crops", "Pasture", "Industrial Area",
     "FOREST", "Cultivated Treeland", "Sparse Shrubs", "Built-up GRASS", ""}

\* for every label, the keywords that land_class.lower() contains
KeywordsOfLabel ==
    [land_class \in SoilLabels |->
        LET land_class_lower == Lower(Spelling(land_class))
        IN  { keyword \in SoilKeywords : Contains(land_class_lower, Spelling(keyword)) }]

\* the keywords of _analyze_soil_from_land_class that land_class.lower() contains
KeywordsIn(land_class) == KeywordsOfLabel[land_class]

\* soil_families of _get_suitable_soil_types, in the order of the dict
soil_families ==
    << <<"loamy", "fertile", "well-drained", "sandy loam", "clay loam">>,
       <<"sandy", "sandy loam", "well-drained">>,
       <<"clay", "clay loam", "waterlogged">>,
       <<"fertile", "loamy", "rich organic", "well-drained">> >>

Range(seq) == { seq[i] : i \in 1..Len(seq) }

\* _get_suitable_soil_types(primary_type): the first family that lists it
_get_suitable_soil_types(primary_type) ==
    IF \E f \in 1..Len(soil_families) : primary_type \in Range(soil_families[f])
      THEN soil_families[CHOOSE f \in 1..Len(soil_families) :
                            /\ primary_type \in Range(soil_families[f])
                            /\ \A g \in 1..(f - 1) : primary_type \notin Range(soil_families[g])]
      ELSE <<primary_type, "loamy", "well-drained">>

\* the chain with the water/flooded test moved to the front
SoilTraits_waterfirst(land_class) ==
    LET kw == KeywordsIn(land_class)
    IN  IF kw \cap {"water", "flooded"} # {} THEN <<"clay", "medium", "poor">>
        ELSE IF kw \cap {"forest", "tree"} # {} THEN <<"loamy", "high", "good">>
        ELSE IF kw \cap {"crop", "cultivated"} # {} THEN <<"fertile", "high", "good">>
        ELSE IF kw \cap {"grass", "shrub"} # {} THEN <<"sandy loam", "medium", "good">>
        ELSE IF kw \cap {"urban", "built"} # {} THEN <<"disturbed", "low", "variable">>
        ELSE IF kw \cap {"bare", "sparse"} # {} THEN <<"sandy", "low", "excellent">>
        ELSE <<"loamy", "medium", "good">>
\* the if/elif chain of _analyze_soil_from_land_class
SoilTraits(land_class) ==
    LET kw == KeywordsIn(land_class)
    IN  IF kw \cap {"forest", "tree"} # {} THEN <<"loamy", "high", "good">>
        ELSE IF kw \cap {"crop", "cultivated"} # {} THEN <<"fertile", "high", "good">>
        ELSE IF kw \cap {"grass", "shrub"} # {} THEN <<"sandy loam", "medium", "good">>
        ELSE IF kw \cap {"water", "flooded"} # {} THEN <<"clay", "medium", "poor">>
        ELSE IF kw \cap {"urban", "built"} # {} THEN <<"disturbed", "low", "variable">>
        ELSE IF kw \cap {"bare", "sparse"} # {} THEN <<"sandy", "low", "excellent">>
        ELSE <<"loamy", "medium", "good">>

\* _analyze_soil_from_land_class(land_class)
_analyze_soil_from_land_class(land_class) ==
    LET t == SoilTraits(land_class)
    IN  [primary_type |-> t[1],
         fertility |-> t[2],
         drainage |-> t[3],
         suitable_for |-> _get_suitable_soil_types(t[1])]

-----------------------------------------------------------------------------
(* crop_suggestion_service.py: scoring *)

\* the temperature term without max(0, ...)
TemperatureScore_unclamped(crop_data, temp) ==
    LET min_temp == crop_data.optimal_temp_range[1] * 10
        max_temp == crop_data.optimal_temp_range[2] * 10
    IN  IF min_temp <= temp /\ temp <= max_temp THEN 4000
        ELSE LET deviation == Min2(Abs(temp - min_temp), Abs(temp - max_temp))
             IN  4000 - deviation * 50
\* the temperature term of _calculate_climate_score; temp in tenths of a degree
TemperatureScore(crop_data, temp) ==
    LET min_temp == crop_data.optimal_temp_range[1] * 10
        max_temp == crop_data.optimal_temp_range[2] * 10
    IN  IF min_temp <= temp /\ temp <= max_temp THEN 4000
        ELSE LET deviation == Min2(Abs(temp - min_temp), Abs(temp - max_temp))
             IN  Max2(0, 4000 - deviation * 50)

\* the rainfall term with the penalty of the temperature term (deviation / 20)
RainfallScore_steep(crop_data, rainfall) ==
    LET min_rainfall == crop_data.min_rainfall_mm * 10
        max_rainfall == crop_data.max_rainfall_mm * 10
    IN  IF min_rainfall <= rainfall /\ rainfall <= max_rainfall THEN 4000
        ELSE LET deviation == IF rainfall < min_rainfall
                                THEN min_rainfall - rainfall
                                ELSE rainfall - max_rainfall
             IN  Max2(0, 4000 - deviation * 50)
\* the rainfall term of _calculate_climate_score; rainfall in tenths of a mm
RainfallScore(crop_data, rainfall) ==
    LET min_rainfall == crop_data.min_rainfall_mm * 10
        max_rainfall == crop_data.max_rainfall_mm * 10
    IN  IF min_rainfall <= rainfall /\ rainfall <= max_rainfall THEN 4000
        ELSE LET deviation == IF rainfall < min_rainfall
                                THEN min_rainfall - rainfall
                                ELSE rainfall - max_rainfall
             IN  Max2(0, 4000 - deviation)

\* the climate zone term of _calculate_climate_score
ZoneScore(crop_data, climate_zone) ==
    IF climate_zone \in Range(crop_data.climate_zones) THEN 2000 ELSE 0

\* _calculate_climate_score(crop_data, climate), for a numeric temperature
_calculate_climate_score(crop_data, climate) ==
    Min2(10000, TemperatureScore(crop_data, climate.avg_temperature.num)
                  + RainfallScore(crop_data, climate.annual_rainfall_mm)
                  + ZoneScore(crop_data, climate.climate_zone))

\* `"loam" in s` for the soil type names of the program
ContainsLoam(s) == s \in {"loamy", "sandy loam", "clay loam"}

\* the soil type term of _calculate_soil_score
SoilTypeScore(crop_data, soil) ==
    IF Range(soil.suitable_for) \cap Range(crop_data.soil_types) # {} THEN 6000
    ELSE IF (\E s \in Range(soil.suitable_for) : ContainsLoam(s))
              /\ (\E s \in Range(crop_data.soil_types) : ContainsLoam(s)) THEN 3000
    ELSE 0

\* the fertility term with the bonus of high fertility for medium too
FertilityScore_flat(soil) ==
    IF soil.fertility \in {"high", "medium"} THEN 3000 ELSE 0
\* the fertility term of _calculate_soil_score
FertilityScore(soil) ==
    IF soil.fertility = "high" THEN 3000
    ELSE IF soil.fertility = "medium" THEN 2000
    ELSE 0

\* the drainage term of _calculate_soil_score
DrainageScore(crop_data, soil) ==
    IF "well-drained" \in Range(crop_data.soil_types)
      THEN IF soil.drainage \in {"good", "excellent"} THEN 1000 ELSE 0
    ELSE IF "waterlogged" \in Range(crop_data.soil_types)
      THEN IF soil.drainage = "poor" THEN 1000 ELSE 0
    ELSE 0

\* _calculate_soil_score(crop_data, soil)
_calculate_soil_score(crop_data, soil) ==
    Min2(10000, SoilTypeScore(crop_data, soil) + FertilityScore(soil)
                  + DrainageScore(crop_data, soil))

\* risk_matrix of _calculate_risk_score: tolerance, then the crop's risk level
risk_matrix ==
    [low |-> [low |-> 10000, medium |-> 9000, high |-> 6000, veryhigh |-> 4000],
     medium |-> [low |-> 9000, medium |-> 10000, high |-> 8000, veryhigh |-> 6000],
     high |-> [low |-> 7000, medium |-> 9000, high |-> 10000, veryhigh |-> 9000]]

\* the key of a risk level in risk_matrix ("very high" has a blank)
RiskKey(risk_level) == IF risk_level = "very high" THEN "veryhigh" ELSE risk_level

\* the default of the lookup taken as 0 instead of 0.7
_calculate_risk_score_zero(crop_data, risk_tolerance) ==
    DictGet(DictGet(risk_matrix, risk_tolerance, <<>>), RiskKey(crop_data.risk_level), 0)
\* _calculate_risk_score: risk_matrix.get(risk_tolerance, {}).get(risk_level, 0.7)
_calculate_risk_score(crop_data, risk_tolerance) ==
    DictGet(DictGet(risk_matrix, risk_tolerance, <<>>), RiskKey(crop_data.risk_level), 7000)

RECURSIVE MulDiv(_, _, _)
\* <<q, r>> with a * b = q * c + r and 0 <= r < c, for 0 <= a, c < 2^27, c > 0
\* and b >= 0, computed sixteen-fold digit by digit without forming a * b
MulDiv(a, b, c) ==
    IF b = 0 THEN <<0, 0>>
    ELSE LET h == MulDiv(a, b \div 16, c)
             high == 16 * h[2]
             low == a * (b % 16)
             r == (high % c) + (low % c)
             carry == IF r >= c THEN 1 ELSE 0
         IN  <<16 * h[1] + (high \div c) + (low \div c) + carry, r - carry * c>>

\* round(a * b / c) to the nearest integer, ties to even, for a, b >= 0 and c > 0
MulDivRound(a, b, c) ==
    LET qr == MulDiv(a, b, c)
    IN  IF 2 * qr[2] < c THEN qr[1]
        ELSE IF 2 * qr[2] > c THEN qr[1] + 1
        ELSE IF qr[1] % 2 = 0 THEN qr[1] ELSE qr[1] + 1

Sign(a) == IF a < 0 THEN -1 ELSE 1

\* gross_revenue = avg_yield_kg_per_hectare * avg_market_price_inr_per_kg
GrossRevenue(crop_data) ==
    crop_data.avg_yield_kg_per_hectare * crop_data.avg_market_price_inr_per_kg

\* net_profit = gross_revenue - investment_cost_inr_per_hectare
NetProfit(crop_data) == GrossRevenue(crop_data) - crop_data.investment_cost_inr_per_hectare

\* round(roi_percentage, 1), roi_percentage = (net_profit / investment_cost) * 100,
\* in tenths of a percent
RoiPercentage(crop_data) ==
    Sign(NetProfit(crop_data))
      * MulDivRound(Abs(NetProfit(crop_data)), 1000, crop_data.investment_cost_inr_per_hectare)

\* suitability_score = climate_score * 0.35 + soil_score * 0.35 + risk_score * 0.30,
\* in millionths
SuitabilityScore(climate_score, soil_score, risk_score) ==
    35 * climate_score + 35 * soil_score + 30 * risk_score

\* round(profit_score, 2) in hundredths, where
\* profit_score = suitability_score * (roi_percentage / 100) * (net_profit / 10000)
\*              = suitability_score * net_profit^2 / (investment_cost * 10000):
\* the two factors net_profit have the same sign, so the product is never negative
ProfitScore(suitability_score, net_profit, investment_cost) ==
    LET n == Abs(net_profit)
        scale == 10000 * 10000
        s1 == MulDiv(suitability_score, n, investment_cost)
        s2 == MulDiv(s1[1], n, scale)
        s3 == MulDiv(s1[2], n, investment_cost)
        m == s2[2] + s3[1]
        whole == s2[1] + (m \div scale)
        frac == m % scale
    IN  IF 2 * frac < scale THEN whole
        ELSE IF 2 * frac > scale \/ s3[2] > 0 THEN whole + 1
        ELSE IF whole % 2 = 0 THEN whole ELSE whole + 1

\* value * farm_size rounded to the rupee; farm_size in hundredths of a hectare
ScaleToFarm(value, farm_size) == Sign(value) * MulDivRound(Abs(value), farm_size, 100)

\* _score_crop(crop_data, climate, soil, farm_size, risk_tolerance)
_score_crop(crop_data, climate, soil, farm_size, risk_tolerance) ==
    LET climate_score == _calculate_climate_score(crop_data, climate)
        soil_score == _calculate_soil_score(crop_data, soil)
        risk_score == _calculate_risk_score(crop_data, risk_tolerance)
        suitability_score == SuitabilityScore(climate_score, soil_score, risk_score)
        net_profit == NetProfit(crop_data)
    IN  [suitability_score |-> RoundHalfEven(suitability_score, 10000),
         profit_score |-> ProfitScore(suitability_score, net_profit,
                                      crop_data.investment_cost_inr_per_hectare),
         climate_score |-> RoundHalfEven(climate_score, 100),
         soil_score |-> RoundHalfEven(soil_score, 100),
         risk_score |-> RoundHalfEven(risk_score, 100),
         gross_revenue_per_hectare |-> GrossRevenue(crop_data),
         net_profit_per_hectare |-> net_profit,
         roi_percentage |-> RoiPercentage(crop_data),
         total_investment_inr |->
             ScaleToFarm(crop_data.investment_cost_inr_per_hectare, farm_size),
         total_profit_inr |-> ScaleToFarm(net_profit, farm_size),
         payback_months |-> crop_data.growing_months]

-----------------------------------------------------------------------------
(* crop_suggestion_service.py: the recommendation *)

\* seq[:n]
Take(seq, n) == SubSeq(seq, 1, Min2(n, Len(seq)))

\* the entries of a list of <<condition, text>> pairs whose condition holds
Chosen(pairs) == SelectSeq(pairs, LAMBDA p : p[1])
Texts(pairs) == [i \in 1..Len(pairs) |-> pairs[i][2]]

\* _get_crop_advantages(crop, scores); the ROI text without its number
_get_crop_advantages(crop, scores) ==
    Take(Texts(Chosen(<<
        <<scores.roi_percentage > 1000, "Excellent ROI">>,
        <<crop.growing_months <= 4, "Quick harvest - fast returns">>,
        <<crop.risk_level = "low", "Low risk - reliable income">>,
        <<crop.water_requirement = "low", "Water-efficient - lower costs">>,
        <<crop.labor_intensity = "low", "Low labor requirements">>,
        <<scores.climate_score >= 80, "Highly suitable for local climate">>,
        <<crop.avg_market_price_inr_per_kg > 2, "High market value">> >>)), 4)

\* _get_success_tips(crop); the temperature text without its numbers
_get_success_tips(crop) ==
    Take(Texts(Chosen(<<
        <<crop.water_requirement = "high", "Ensure consistent irrigation system">>,
        <<crop.labor_intensity \in {"high", "very high"},
          "Plan for adequate labor during harvest">>,
        <<crop.risk_level \in {"high", "very high"}, "Consider crop insurance">>,
        <<"well-drained" \in Range(crop.soil_types),
          "Ensure proper drainage to prevent waterlogging">>,
        <<TRUE, "Optimal temperature">> >>)), 3)

\* max(1, 12 // crop["growing_months"])
HarvestCycles(crop) == Max2(1, 12 \div crop.growing_months)

\* _format_suggestion(suggestion, rank)
_format_suggestion(suggestion, rank) ==
    LET crop == suggestion.crop_data
    IN  [rank |-> rank,
         crop_name |-> crop.name,
         category |-> crop.category,
         suitability_percentage |-> suggestion.suitability_score * 10,
         expected_profit_per_hectare_inr |-> suggestion.net_profit_per_hectare,
         roi_percentage |-> suggestion.roi_percentage,
         investment_required_inr |-> crop.investment_cost_inr_per_hectare,
         growing_period_months |-> crop.growing_months,
         harvest_cycles_per_year |-> HarvestCycles(crop),
         annual_profit_potential_inr |->
             suggestion.net_profit_per_hectare * HarvestCycles(crop),
         water_requirement |-> crop.water_requirement,
         labor_intensity |-> crop.labor_intensity,
         risk_level |-> crop.risk_level,
         key_advantages |-> _get_crop_advantages(crop, suggestion),
         success_tips |-> _get_success_tips(crop)]

\* _get_rotation_benefit(category)
_get_rotation_benefit(category) ==
    DictGet([Legume |-> "Fixes nitrogen in soil",
             Grain |-> "Builds organic matter",
             Vegetable |-> "Quick cash crop",
             Oilseed |-> "Deep root system improves soil",
             Herb |-> "Pest control through diversity",
             Fruit |-> "Long-term investment"], category, "Diversifies production")

RECURSIVE SumField(_, _)
\* sum(c[field] for c in entries)
SumField(entries, field) ==
    IF entries = <<>> THEN 0 ELSE entries[1][field] + SumField(Tail(entries), field)

\* _generate_rotation_plan(top_crops)
_generate_rotation_plan(top_crops) ==
    IF Len(top_crops) < 2
      THEN [recommendation |-> "Insufficient data for rotation plan"]
      ELSE LET rotation_sequence ==
                   [i \in 1..Len(top_crops) |->
                       [crop |-> top_crops[i].crop_data.name,
                        duration_months |-> top_crops[i].crop_data.growing_months,
                        category |-> top_crops[i].crop_data.category,
                        benefit |-> _get_rotation_benefit(top_crops[i].crop_data.category)]]
           IN  [rotation_type |-> "Sequential high-profit rotation",
                sequence |-> rotation_sequence,
                total_cycle_months |-> SumField(rotation_sequence, "duration_months"),
                benefits |-> <<"Maximizes annual profit",
                               "Reduces pest and disease pressure",
                               "Maintains soil fertility",
                               "Diversifies income streams">>]

\* the rule of a season of _generate_seasonal_calendar on the temperature
\* range temp_range (degrees Celsius)
InSeason(season, temp_range) ==
    CASE season = "Spring" -> 15 <= temp_range[1] /\ temp_range[1] <= 25
      [] season = "Summer" -> 20 <= temp_range[2] /\ temp_range[2] <= 35
      [] season = "Fall" -> 15 <= temp_range[1] /\ temp_range[1] <= 25
      [] season = "Winter" -> temp_range[1] < 15

\* the names of the crops of top_crops whose temperature range meets the
\* season's rule
SeasonNames(top_crops, season) ==
    LET picked == SelectSeq(top_crops,
                            LAMBDA c : InSeason(season, c.crop_data.optimal_temp_range))
    IN  [i \in 1..Len(picked) |-> picked[i].crop_data.name]

\* _generate_seasonal_calendar(top_crops); the keys are the season names
\* "Spring (Mar-May)", "Summer (Jun-Aug)", "Fall (Sep-Nov)", "Winter (Dec-Feb)"
_generate_seasonal_calendar(top_crops) ==
    [season \in {"Spring", "Summer", "Fall", "Winter"} |-> SeasonNames(top_crops, season)]

\* _get_market_insights(top_crops)
_get_market_insights(top_crops) ==
    LET roi_sum == SumField(top_crops, "roi_percentage")
    IN  [portfolio_strategy |-> "Diversified high-profit approach",
         total_investment_required_inr |-> SumField(top_crops, "total_investment_inr"),
         expected_annual_profit_inr |-> SumField(top_crops, "total_profit_inr"),
         portfolio_roi_percentage |->
             IF top_crops # <<>>
               THEN Sign(roi_sum) * RoundHalfEven(Abs(roi_sum), Len(top_crops))
               ELSE 0,
         market_trends |-> <<"Premium vegetables show strong demand",
                             "Organic certification can increase prices by 20-30%",
                             "Direct-to-consumer sales improve margins">>,
         risk_mitigation |-> <<"Diversify across multiple crops",
                               "Stagger planting dates",
                               "Build relationships with multiple buyers",
                               "Consider value-added processing">>]

\* `if score_result["suitability_score"] > 0.3`: the rounded score, in hundredths
ClearsFloor(score_result) == score_result.suitability_score > 30

\* the entry appended to crop_scores: crop_id, crop_data and **score_result
ScoredEntry(crop, score_result) ==
    [crop_id |-> crop.crop_id, crop_data |-> crop] @@ score_result

\* crop_scores after the loop over CROP_DATABASE.items()
CropScores(db, climate, soil, farm_size, risk_tolerance) ==
    LET scored == [i \in 1..Len(db) |->
                      ScoredEntry(db[i], _score_crop(db[i], climate, soil,
                                                     farm_size, risk_tolerance))]
    IN  SelectSeq(scored, ClearsFloor)

RECURSIVE InsertByProfit(_, _)
\* e put after every entry of the sorted list whose profit_score is >= e's
InsertByProfit(sorted, e) ==
    IF sorted = <<>> THEN <<e>>
    ELSE IF sorted[1].profit_score >= e.profit_score
           THEN <<sorted[1]>> \o InsertByProfit(Tail(sorted), e)
           ELSE <<e>> \o sorted

RECURSIVE SortedByProfitFrom(_, _, _)
SortedByProfitFrom(entries, i, sorted) ==
    IF i > Len(entries) THEN sorted
    ELSE SortedByProfitFrom(entries, i + 1, InsertByProfit(sorted, entries[i]))

\* crop_scores left in the order of the catalog
SortByProfit_unsorted(entries) == entries
\* crop_scores.sort(key=profit_score, reverse=True): stable
SortByProfit(entries) == SortedByProfitFrom(entries, 1, <<>>)

\* the crops _get_fallback_suggestions names, by latitude
FallbackCrops(abs_lat) ==
    IF abs_lat < TropicLimit THEN <<"tropical", <<"rice", "sugarcane", "corn">> >>
    ELSE IF abs_lat < Degrees(35) THEN <<"subtropical", <<"corn", "soybeans", "cotton">> >>
    ELSE <<"temperate", <<"wheat", "sunflower", "canola">> >>

\* self.CROP_DATABASE[crop_id]
CatalogEntry(db, crop_id) == db[CHOOSE i \in 1..Len(db) : db[i].crop_id = crop_id]

\* _get_fallback_suggestions(lat, lng): a KeyError when the catalog lacks a crop
_get_fallback_suggestions(db, lat, lng) ==
    LET f == FallbackCrops(Abs(lat))
    IN  IF \E k \in 1..Len(f[2]) : \A i \in 1..Len(db) : db[i].crop_id # f[2][k]
          THEN [raised |-> "KeyError"]
          ELSE [location |-> [lat |-> lat, lng |-> lng],
                climate_zone |-> f[1],
                top_suggestions |->
                    [k \in 1..Len(f[2]) |->
                        [rank |-> k,
                         crop_name |-> CatalogEntry(db, f[2][k]).name,
                         category |-> CatalogEntry(db, f[2][k]).category,
                         note |-> "Basic recommendation - detailed analysis unavailable"]],
                status |-> "fallback_mode"]

\* the exception the try block of get_crop_suggestions raises, or "none":
\* the comparisons of _calculate_climate_score raise a TypeError on a temperature
\* that is not a number, as soon as there is a crop to score
RaisedInTry(db, climate) ==
    IF db # <<>> /\ ~IsNumber(climate.avg_temperature) THEN "TypeError" ELSE "none"

\* the result of get_crop_suggestions when nothing raises (without the timestamp)
CropSuggestionResult(db, req, climate, soil) ==
    LET crop_scores == SortByProfit(CropScores(db, climate, soil,
                                               req.farm_size_hectares, req.risk_tolerance))
        top_suggestions == Take(crop_scores, 10)
    IN  [location |-> [lat |-> req.lat, lng |-> req.lng],
         farm_size_hectares |-> req.farm_size_hectares,
         climate_zone |-> climate.climate_zone,
         soil_type |-> soil.primary_type,
         risk_tolerance |-> req.risk_tolerance,
         top_suggestions |->
             [idx \in 1..Len(top_suggestions) |->
                 _format_suggestion(top_suggestions[idx], idx)],
         crop_rotation_plan |-> _generate_rotation_plan(Take(top_suggestions, 3)),
         seasonal_calendar |-> _generate_seasonal_calendar(Take(top_suggestions, 5)),
         market_insights |-> _get_market_insights(Take(top_suggestions, 3))]

\* get_crop_suggestions(lat, lng, land_class, weather_data, crop_history,
\* farm_size_hectares, risk_tolerance) on the catalog db; req holds the arguments
get_crop_suggestions(db, req) ==
    LET climate == _analyze_climate(req.lat, req.weather_data, req.crop_history)
        soil == _analyze_soil_from_land_class(req.land_class)
    IN  IF RaisedInTry(db, climate) = "none"
          THEN CropSuggestionResult(db, req, climate, soil)
          ELSE _get_fallback_suggestions(db, req.lat, req.lng)

\* crop_data.update(score_result) in the loop: the scores written into the
\* catalog entries
CatalogAfterCall_updated(db, req) ==
    LET climate == _analyze_climate(req.lat, req.weather_data, req.crop_history)
        soil == _analyze_soil_from_land_class(req.land_class)
    IN  IF RaisedInTry(db, climate) = "none"
          THEN [i \in 1..Len(db) |->
                   db[i] @@ _score_crop(db[i], climate, soil,
                                        req.farm_size_hectares, req.risk_tolerance)]
          ELSE db
\* CROP_DATABASE after get_crop_suggestions: the loop over
\* self.CROP_DATABASE.items() and _get_fallback_suggestions only read the
\* entries; score_result is unpacked into a new dict of crop_scores
CatalogAfterCall(db, req) == db

-----------------------------------------------------------------------------
(* main.py: the polygon branch of analyze_location *)

\* determine_optimal_zoom(polygon_area_km2, is_polygon)
determine_optimal_zoom(polygon_area_km2, is_polygon) ==
    IF ~is_polygon THEN 15
    ELSE IF polygon_area_km2 * 100 < AreaUnitsPerKm2 THEN 17
    ELSE IF polygon_area_km2 * 10 < AreaUnitsPerKm2 THEN 16
    ELSE IF polygon_area_km2 < AreaUnitsPerKm2 THEN 15
    ELSE 14

\* what the inference service answers for the k-th sample when the call succeeds
SamplePrediction(k) ==
    << [land_class |-> "Forest", confidence |-> 850],
       [land_class |-> "Urban", confidence |-> 700],
       [land_class |-> "Forest", confidence |-> 700] >>[((k - 1) % 3) + 1]

\* predict_batch while it runs: the k-th sample's call has ended; a prediction
\* that failed is left out of the batch
predict_batch_step(in_flight, k, succeeded) ==
    IF succeeded THEN Append(in_flight, SamplePrediction(k)) ELSE in_flight

\* the await returning although calls of the batch are still running
AwaitReturns_early(settled, samples) == TRUE
\* `await hf_service.predict_batch(sample_coords, ...)` returns once every
\* sample's call has ended
AwaitReturns(settled, samples) == settled = Len(samples)

\* batch_predictions[0].get(key, default) if batch_predictions else default
FirstImage(batch_predictions, key, default) ==
    IF batch_predictions # <<>> THEN DictGet(batch_predictions[1], key, default) ELSE default

\* area_info of the polygon branch
AreaInfo(points, lat, lng, area_km2, optimal_zoom, aggregated) ==
    [total_points |-> Len(points),
     estimated_area_hectares |-> calculate_polygon_area(points),
     estimated_area_km2 |-> area_km2,
     perimeter_km |-> calculate_polygon_perimeter(points),
     dominant_land_type |-> aggregated.dominant_class,
     centroid_coordinates |-> [lat |-> lat, lng |-> lng],
     sample_count |-> aggregated.sample_count,
     zoom_level_used |-> optimal_zoom,
     class_distribution |-> aggregated.class_distribution]

\* the arguments of the get_crop_suggestions call of the polygon branch
PolygonCropRequest(req) ==
    [lat |-> req.lat, lng |-> req.lng,
     land_class |-> req.aggregated.dominant_class,
     weather_data |-> req.weather_data,
     crop_history |-> req.crop_history,
     farm_size_hectares |-> req.area_info.estimated_area_hectares,
     risk_tolerance |-> "medium"]

\* crop_suggestions of the polygon branch: None when the call raised
CropSuggestionsOf(db, req) ==
    LET suggestions == get_crop_suggestions(db, PolygonCropRequest(req))
    IN  IF "raised" \in DOMAIN suggestions THEN None ELSE suggestions

\* the response of the polygon branch
PolygonResult(req, crop_suggestions) ==
    [land_class |-> req.aggregated.dominant_class,
     confidence |-> req.aggregated.confidence,
     before_image_b64 |-> FirstImage(req.batch_predictions, "before_image_b64", "IMG_LR_B64"),
     after_image_b64 |-> FirstImage(req.batch_predictions, "after_image_b64", "IMG_SR_B64"),
     top_predictions |-> Take(req.aggregated.class_distribution, 5),
     analysis_type |-> "polygon",
     coordinates |-> [lat |-> req.lat, lng |-> req.lng],
     area_info |-> req.area_info,
     weather_data |-> req.weather_data,
     crop_history |-> req.crop_history,
     crop_suggestions |-> crop_suggestions,
     ml_source |-> "multi-sample-aggregated",
     detailed_samples |-> Take(req.batch_predictions, 10)]

-----------------------------------------------------------------------------
(* Inputs *)

\* vertices: the corners of a 0.013 degree square at the origin and two points
\* 0.0008 degree from the origin, so that polygons fall in every area tier
PointPool ==
    { <<Units(0), Units(0)>>, <<Units(0), Units(8)>>, <<Units(8), Units(8)>>,
      <<Units(0), Units(130)>>, <<Units(130), Units(130)>>, <<Units(130), Units(0)>> }

\* the vertex lists of up to MaxVertices pairwise distinct points
Polygons ==
    UNION { { p \in [1..n -> PointPool] : \A i, j \in 1..n : i < j => p[i] # p[j] }
            : n \in 0..MaxVertices }

\* <<max_samples, min_samples>> with min_samples <= max_samples
SampleCounts == { sc \in (0..MaxMaxSamples) \X (0..MaxMinSamples) : sc[2] <= sc[1] }

\* predictions as the inference service returns them, and one without a class
PredictionPool ==
    [land_class : {"Agricultural", "Forest"}, confidence : {700, 850}]
        \cup { [land_class |-> "Urban", confidence |-> 850], [confidence |-> 700] }

\* mock_predictions of test_polygon_utils.py
mock_predictions ==
    << [land_class |-> "Agricultural", confidence |-> 850],
       [land_class |-> "Agricultural", confidence |-> 820],
       [land_class |-> "Forest", confidence |-> 750],
       [land_class |-> "Agricultural", confidence |-> 880],
       [land_class |-> "Urban", confidence |-> 700] >>

\* the five predictions A, A, A, B, C with confidences 0.9, 0.8, 0.85, 0.7, 0.6
scenario_predictions ==
    << [land_class |-> "A", confidence |-> 900],
       [land_class |-> "A", confidence |-> 800],
       [land_class |-> "A", confidence |-> 850],
       [land_class |-> "B", confidence |-> 700],
       [land_class |-> "C", confidence |-> 600] >>

\* n predictions of n pairwise distinct classes
DistinctClasses(n) == [k \in 1..n |-> [land_class |-> ToString(k), confidence |-> 800]]

\* 5000 predictions of class B followed by 5001 of class A: the two
\* percentages, 49.995 and 50.005, both round to 50.0
near_tie_predictions ==
    [k \in 1..10001 |-> IF k <= 5000 THEN [land_class |-> "B", confidence |-> 700]
                                     ELSE [land_class |-> "A", confidence |-> 800]]

PredictionLists ==
    UNION { [1..n -> PredictionPool] : n \in 0..MaxPredictions }
        \cup { mock_predictions, scenario_predictions, near_tie_predictions }
        \cup { DistinctClasses(n) : n \in 1..MaxClasses }

\* a profile that the suitability floor can reject: a very high risk crop of
\* waterlogged soil
MarginalCrop ==
    [crop_id |-> "marsh_reed", name |-> "Marsh Reed", category |-> "Fiber",
     avg_yield_kg_per_hectare |-> 1000, avg_market_price_inr_per_kg |-> 50,
     investment_cost_inr_per_hectare |-> 20000, growing_months |-> 8,
     optimal_temp_range |-> <<15, 25>>, min_rainfall_mm |-> 1080, max_rainfall_mm |-> 2000,
     soil_types |-> <<"waterlogged">>,
     climate_zones |-> <<"tropical">>,
     water_requirement |-> "high", labor_intensity |-> "low", risk_level |-> "very high"]

\* two profiles that make a loss, alike in everything but yield value and cost:
\* 1000 rupees lost on 20000 invested, and 95000 lost on 100000
SmallLossCrop ==
    [ShippedCatalog[6] EXCEPT !.crop_id = "small_loss", !.name = "Small Loss",
                              !.avg_yield_kg_per_hectare = 1000,
                              !.avg_market_price_inr_per_kg = 19,
                              !.investment_cost_inr_per_hectare = 20000]
BigLossCrop ==
    [ShippedCatalog[6] EXCEPT !.crop_id = "big_loss", !.name = "Big Loss",
                              !.avg_yield_kg_per_hectare = 1000,
                              !.avg_market_price_inr_per_kg = 5,
                              !.investment_cost_inr_per_hectare = 100000]

\* the catalog as shipped, two versions of it that the floor can empty, and one
\* of crops that make a loss
Catalogs ==
    { ShippedCatalog, <<MarginalCrop>>, <<MarginalCrop, ShippedCatalog[6]>>,
      <<SmallLossCrop, BigLossCrop>> }

\* weather_data: missing, with a temperature, without one, or with one that is
\* not a number
WeatherData ==
    { None,
      [temperature |-> [num |-> 250]],
      [temperature |-> [num |-> 500]],
      [avg_temp_c |-> [num |-> 152]],
      [temperature |-> [str |-> "n/a"]] }

\* crop_history: missing, without years, or with two years of 60 and 90 mm a month
CropHistories ==
    { None,
      [ndvi_history |-> <<>>],
      [ndvi_history |-> << [avg_precipitation_mm |-> 600],
                           [avg_precipitation_mm |-> 900] >>] }

\* the arguments of get_crop_suggestions
CropRequests ==
    [lat : {Degrees(10), Degrees(30), Degrees(40), Degrees(60)},
     lng : {0},
     land_class : LandClasses,
     weather_data : WeatherData,
     crop_history : CropHistories,
     farm_size_hectares : {100},
     risk_tolerance : {"low", "medium", "high", "aggressive"}]

\* the arguments of get_crop_suggestions at the ends of the numeric ranges: a
\* temperature of -50 or 1000 degrees or the default, a year without rain or
\* with 10000 mm a month or the default, and a label for every branch of
\* _analyze_soil_from_land_class
ExtremeRequests ==
    [lat : {Degrees(10), Degrees(30), Degrees(40), Degrees(60)},
     lng : {0},
     land_class : LandClasses \cup {"Cropland"},
     weather_data : { None, [temperature |-> [num |-> -500]],
                      [temperature |-> [num |-> 10000]] },
     crop_history : { None, [ndvi_history |-> << [avg_precipitation_mm |-> 0] >>],
                      [ndvi_history |-> << [avg_precipitation_mm |-> 100000] >>] },
     farm_size_hectares : {100},
     risk_tolerance : {"low", "medium", "high", "aggressive"}]

\* the requests whose temperature _score_crop can compare
ScoringRequests ==
    { req \in CropRequests :
        IsNumber(_analyze_climate(req.lat, req.weather_data, req.crop_history).avg_temperature) }

\* the climate contexts _calculate_climate_score is called on: temperatures
\* (tenths of a degree) and rainfalls (tenths of a mm) inside, on the bounds of,
\* near and far from the ranges of the catalog
ClimateContexts ==
    [climate_zone : {"tropical", "subtropical", "temperate", "cold"},
     avg_temperature : { [num |-> t] : t \in {-50, 100, 149, 150, 200, 250, 251, 300, 350, 400, 500} },
     annual_rainfall_mm : {0, 1000, 4000, 6500, 8000, 9000, 12000, 20000, 40000}]

\* the soil contexts _calculate_soil_score is called on: those that
\* _analyze_soil_from_land_class builds
SoilContexts ==
    { _analyze_soil_from_land_class(land_class) : land_class \in LandClasses \cup {"Cropland"} }

\* the polygons of the analyze_location requests: two triangles of 0.0008 degree
AnalysisPolygons ==
    { << <<Units(0), Units(0)>>, <<Units(0), Units(8)>>, <<Units(8), Units(8)>> >>,
      << <<Units(0), Units(0)>>, <<Units(8), Units(0)>>, <<Units(0), Units(8)>> >> }

\* weather_data after the await: None (also when the fetch raised), the
\* summary of weather_service.py, which has avg_temp_c and no temperature, or
\* the error record that get_climate_data returns when the provider failed
WeatherSummaries ==
    { None,
      [avg_temp_c |-> [num |-> 152], status |-> [str |-> "success"]],
      [status |-> [str |-> "error"], error |-> [str |-> "API request timed out"]] }

\* crop_history after the await: None (also when the fetch raised) or a history
HistoryResults ==
    { None, [ndvi_history |-> << [avg_precipitation_mm |-> 600],
                                 [avg_precipitation_mm |-> 900] >>] }

-----------------------------------------------------------------------------
(* The state machine: one call of one function on the inputs Init draws *)

\* no request is being served
Idle == [_crop_suggestion_service |-> None, requests |-> <<>>]

\* an analyze_location request of type polygon as it is received, lat and lng
\* not given
Received(points) ==
    [pc |-> "received", points |-> points, lat |-> None, lng |-> None,
     area_km2 |-> None, optimal_zoom |-> None, sample_coords |-> None,
     in_flight |-> <<>>, settled |-> 0,
     batch_predictions |-> None, aggregated |-> None, aggregate_calls |-> 0,
     area_info |-> None, weather_data |-> None, crop_history |-> None,
     result |-> None]

\* either one function is called on inputs that Init draws (a polygon, a list
\* of predictions, or neither and a catalog), or the endpoint analyze_location
\* serves two polygon requests concurrently
Init ==
    /\ args = <<>>
    /\ result = <<>>
    /\ lattice = NotCalled(0)
    /\ \/ /\ polygon_points \in Polygons \ {<<>>} /\ predictions = <<>>
          /\ CROP_DATABASE = ShippedCatalog
          /\ called = "none" /\ analysis = Idle
       \/ /\ polygon_points = <<>> /\ predictions \in PredictionLists \ {<<>>}
          /\ CROP_DATABASE = ShippedCatalog
          /\ called = "none" /\ analysis = Idle
       \/ /\ polygon_points = <<>> /\ predictions = <<>>
          /\ CROP_DATABASE \in Catalogs
          /\ called = "none" /\ analysis = Idle
       \/ /\ polygon_points = <<>> /\ predictions = <<>>
          /\ CROP_DATABASE = ShippedCatalog
          /\ called = "analyze_location"
          /\ \E p \in AnalysisPolygons \X AnalysisPolygons :
                analysis = [_crop_suggestion_service |-> None,
                            requests |-> <<Received(p[1]), Received(p[2])>>]

PointInPolygon ==
    /\ called = "none" /\ predictions = <<>>
    /\ \E point \in PointPool \cup
                    (IF polygon_points = <<>> THEN {} ELSE {Centroid(polygon_points)}) :
          /\ args' = [point |-> point]
          /\ result' = point_in_polygon(point, polygon_points)
    /\ called' = "point_in_polygon"
    /\ UNCHANGED <<polygon_points, predictions, CROP_DATABASE, analysis, lattice>>

EstimatePolygonAreaKm2 ==
    /\ called = "none" /\ predictions = <<>>
    /\ called' = "estimate_polygon_area_km2"
    /\ result' = estimate_polygon_area_km2(polygon_points)
    /\ UNCHANGED <<polygon_points, predictions, args, CROP_DATABASE, analysis, lattice>>

CalculatePolygonArea ==
    /\ called = "none" /\ predictions = <<>>
    /\ called' = "calculate_polygon_area"
    /\ result' = calculate_polygon_area(polygon_points)
    /\ UNCHANGED <<polygon_points, predictions, args, CROP_DATABASE, analysis, lattice>>

CalculatePolygonPerimeter ==
    /\ called = "none" /\ predictions = <<>>
    /\ called' = "calculate_polygon_perimeter"
    /\ result' = calculate_polygon_perimeter(polygon_points)
    /\ UNCHANGED <<polygon_points, predictions, args, CROP_DATABASE, analysis, lattice>>

GenerateGridSamples ==
    /\ called = "none" /\ predictions = <<>>
    /\ \E sc \in SampleCounts :
          /\ args' = [max_samples |-> sc[1], min_samples |-> sc[2]]
          /\ result' = generate_grid_samples(polygon_points, sc[1], sc[2])
    /\ called' = "generate_grid_samples"
    /\ UNCHANGED <<polygon_points, predictions, CROP_DATABASE, analysis, lattice>>

AggregatePredictions ==
    /\ called = "none" /\ polygon_points = <<>>
    /\ called' = "aggregate_predictions"
    /\ result' = aggregate_predictions(predictions)
    /\ UNCHANGED <<polygon_points, predictions, args, CROP_DATABASE, analysis, lattice>>

\* _score_crop on one profile of the catalog, in the contexts of a request
ScoreCrop ==
    /\ called = "none" /\ polygon_points = <<>> /\ predictions = <<>>
    /\ \E req \in ScoringRequests, i \in 1..Len(CROP_DATABASE) :
          /\ args' = [crop_data |-> CROP_DATABASE[i], request |-> req]
          /\ result' = _score_crop(CROP_DATABASE[i],
                                   _analyze_climate(req.lat, req.weather_data, req.crop_history),
                                   _analyze_soil_from_land_class(req.land_class),
                                   req.farm_size_hectares, req.risk_tolerance)
    /\ called' = "_score_crop"
    /\ UNCHANGED <<polygon_points, predictions, CROP_DATABASE, analysis, lattice>>

AnalyzeSoilFromLandClass ==
    /\ called = "none" /\ polygon_points = <<>> /\ predictions = <<>>
    /\ \E land_class \in SoilLabels :
          /\ args' = [land_class |-> land_class]
          /\ result' = _analyze_soil_from_land_class(land_class)
    /\ called' = "_analyze_soil_from_land_class"
    /\ UNCHANGED <<polygon_points, predictions, CROP_DATABASE, analysis, lattice>>

CalculateClimateScore ==
    /\ called = "none" /\ polygon_points = <<>> /\ predictions = <<>>
    /\ \E climate \in ClimateContexts, i \in 1..Len(CROP_DATABASE) :
          /\ args' = [crop_data |-> CROP_DATABASE[i], climate |-> climate]
          /\ result' = _calculate_climate_score(CROP_DATABASE[i], climate)
    /\ called' = "_calculate_climate_score"
    /\ UNCHANGED <<polygon_points, predictions, CROP_DATABASE, analysis, lattice>>

CalculateSoilScore ==
    /\ called = "none" /\ polygon_points = <<>> /\ predictions = <<>>
    /\ \E soil \in SoilContexts, i \in 1..Len(CROP_DATABASE) :
          /\ args' = [crop_data |-> CROP_DATABASE[i], soil |-> soil]
          /\ result' = _calculate_soil_score(CROP_DATABASE[i], soil)
    /\ called' = "_calculate_soil_score"
    /\ UNCHANGED <<polygon_points, predictions, CROP_DATABASE, analysis, lattice>>

GetCropSuggestions ==
    /\ called = "none" /\ polygon_points = <<>> /\ predictions = <<>>
    /\ \E req \in CropRequests \cup ExtremeRequests :
          /\ args' = req
          /\ result' = get_crop_suggestions(CROP_DATABASE, req)
          /\ CROP_DATABASE' = CatalogAfterCall(CROP_DATABASE, req)
    /\ called' = "get_crop_suggestions"
    /\ UNCHANGED <<polygon_points, predictions, analysis, lattice>>

\* the request r of analyze_location
Request(r) == analysis.requests[r]

\* analyze_location from its start to the await of predict_batch
StartPolygonAnalysis(r) ==
    /\ called = "analyze_location" /\ Request(r).pc = "received"
    /\ Len(Request(r).points) >= 3
    /\ LET points == Request(r).points
           area_km2 == estimate_polygon_area_km2(points)
           sample_coords == generate_grid_samples(points, 50, 5)
       IN  /\ sample_coords.raised = "none"
           /\ analysis' = [analysis EXCEPT !.requests[r] =
                  [@ EXCEPT !.pc = "predict_batch",
                            !.lat = Centroid(points)[1],
                            !.lng = Centroid(points)[2],
                            !.area_km2 = area_km2,
                            !.optimal_zoom = determine_optimal_zoom(area_km2, TRUE),
                            !.sample_coords = sample_coords.value]]
    /\ UNCHANGED <<polygon_points, predictions, called, args, result, CROP_DATABASE, lattice>>

\* the call for the next sample of the batch ends, with a prediction or failing
PredictionSettles(r) ==
    /\ called = "analyze_location" /\ Request(r).pc = "predict_batch"
    /\ Request(r).settled < Len(Request(r).sample_coords)
    /\ \E succeeded \in BOOLEAN :
          analysis' = [analysis EXCEPT !.requests[r] =
              [@ EXCEPT !.settled = @ + 1,
                        !.in_flight = predict_batch_step(Request(r).in_flight,
                                                         Request(r).settled + 1, succeeded)]]
    /\ UNCHANGED <<polygon_points, predictions, called, args, result, CROP_DATABASE, lattice>>

\* predict_batch returns: aggregation and area_info, up to the await of
\* get_agricultural_climate_summary
BatchReturns(r) ==
    /\ called = "analyze_location" /\ Request(r).pc = "predict_batch"
    /\ AwaitReturns(Request(r).settled, Request(r).sample_coords)
    /\ LET req == Request(r)
           aggregated == aggregate_predictions(req.in_flight)
       IN  analysis' = [analysis EXCEPT !.requests[r] =
               [@ EXCEPT !.pc = "get_agricultural_climate_summary",
                         !.batch_predictions = req.in_flight,
                         !.aggregated = aggregated,
                         !.aggregate_calls = @ + 1,
                         !.area_info = AreaInfo(req.points, req.lat, req.lng, req.area_km2,
                                                req.optimal_zoom, aggregated)]]
    /\ UNCHANGED <<polygon_points, predictions, called, args, result, CROP_DATABASE, lattice>>

\* get_agricultural_climate_summary returns a summary or None, or raises
\* (weather_data stays None); then the await of get_crop_history
WeatherReturns(r) ==
    /\ called = "analyze_location" /\ Request(r).pc = "get_agricultural_climate_summary"
    /\ \E weather_data \in WeatherSummaries :
          analysis' = [analysis EXCEPT !.requests[r] =
              [@ EXCEPT !.pc = "get_crop_history", !.weather_data = weather_data]]
    /\ UNCHANGED <<polygon_points, predictions, called, args, result, CROP_DATABASE, lattice>>

\* get_crop_history returns or raises (crop_history stays None); then
\* get_crop_suggestion_service(), get_crop_suggestions and the response
HistoryReturns(r) ==
    /\ called = "analyze_location" /\ Request(r).pc = "get_crop_history"
    /\ \E crop_history \in HistoryResults :
          LET req == [Request(r) EXCEPT !.crop_history = crop_history]
          IN  /\ analysis' = [_crop_suggestion_service |-> "CropSuggestionService",
                               requests |-> [analysis.requests EXCEPT ![r] =
                                   [req EXCEPT !.pc = "done",
                                               !.result = PolygonResult(req,
                                                   CropSuggestionsOf(CROP_DATABASE, req))]]]
              /\ CROP_DATABASE' = CatalogAfterCall(CROP_DATABASE, PolygonCropRequest(req))
    /\ UNCHANGED <<polygon_points, predictions, called, args, result, lattice>>

\* the requests being served
Serving == 1..Len(analysis.requests)

Next ==
    \/ PointInPolygon
    \/ EstimatePolygonAreaKm2
    \/ CalculatePolygonArea
    \/ CalculatePolygonPerimeter
    \/ GenerateGridSamples
    \/ AggregatePredictions
    \/ GetCropSuggestions
    \/ AnalyzeSoilFromLandClass
    \/ CalculateClimateScore
    \/ CalculateSoilScore
    \/ ScoreCrop
    \/ \E r \in Serving : StartPolygonAnalysis(r)
    \/ \E r \in Serving : PredictionSettles(r)
    \/ \E r \in Serving : BatchReturns(r)
    \/ \E r \in Serving : WeatherReturns(r)
    \/ \E r \in Serving : HistoryReturns(r)

Spec == Init /\ [][Next]_vars

-----------------------------------------------------------------------------
(* The state machine of one call of generate_grid_samples, loop by loop *)

\* a polygon, at the origin of the ticks or with its latitudes at 2^48 degrees
LatticeInit ==
    /\ args = <<>>
    /\ result = <<>>
    /\ polygon_points \in Polygons /\ predictions = <<>>
    /\ CROP_DATABASE = ShippedCatalog
    /\ called = "none" /\ analysis = Idle
    /\ \E origin \in Origins :
          /\ origin # 0 =>
                \A i \in 1..Len(polygon_points) : polygon_points[i][1] % DoubleGap = 0
          /\ lattice = NotCalled(origin)

\* the call up to `lat = min_lat`: the early return, the bounds, the spacing
BeginGridSamples ==
    /\ called = "none" /\ lattice.pc = "idle"
    /\ \E sc \in SampleCounts :
          /\ args' = [max_samples |-> sc[1], min_samples |-> sc[2]]
          /\ IF Len(polygon_points) < 3
                THEN /\ lattice' = [lattice EXCEPT !.pc = "returned"]
                     /\ result' = [raised |-> "none", value |-> <<>>]
                ELSE LET spacing == GridSpacingFor(polygon_points, sc[1], sc[2])
                         min_lat == calculate_polygon_bounds(polygon_points)[1]
                     IN  IF spacing.raised # "none"
                           THEN /\ lattice' = [lattice EXCEPT !.pc = "raised"]
                                /\ result' = [raised |-> spacing.raised, value |-> <<>>]
                           ELSE /\ lattice' = [lattice EXCEPT !.pc = "outer",
                                                              !.spacing = spacing.value,
                                                              !.lat = min_lat]
                                /\ result' = result
    /\ called' = "generate_grid_samples"
    /\ UNCHANGED <<polygon_points, predictions, CROP_DATABASE, analysis>>

\* `while lat <= max_lat:` holds: `lng = min_lng`
OuterEnter ==
    /\ lattice.pc = "outer"
    /\ lattice.lat <= calculate_polygon_bounds(polygon_points)[2]
    /\ lattice' = [lattice EXCEPT !.pc = "inner",
                                  !.lng = calculate_polygon_bounds(polygon_points)[3]]
    /\ UNCHANGED <<polygon_points, predictions, called, args, result, CROP_DATABASE,
                   analysis>>

\* `while lng <= max_lng:` holds: the point is tested and `lng += spacing`
InnerStep ==
    /\ lattice.pc = "inner"
    /\ lattice.lng <= calculate_polygon_bounds(polygon_points)[4]
    /\ LET point == <<lattice.lat, lattice.lng>>
       IN  lattice' = [lattice EXCEPT
                          !.sample_points = IF KeepPoint(point, polygon_points)
                                              THEN Append(@, point) ELSE @,
                          !.lng = FloatAdd(0, @, lattice.spacing)]
    /\ UNCHANGED <<polygon_points, predictions, called, args, result, CROP_DATABASE,
                   analysis>>

\* `while lng <= max_lng:` fails: `lat += spacing`
InnerExit ==
    /\ lattice.pc = "inner"
    /\ lattice.lng > calculate_polygon_bounds(polygon_points)[4]
    /\ lattice' = [lattice EXCEPT !.pc = "outer",
                                  !.lat = FloatAdd(lattice.origin, @, lattice.spacing)]
    /\ UNCHANGED <<polygon_points, predictions, called, args, result, CROP_DATABASE,
                   analysis>>

\* `while lat <= max_lat:` fails: the centroid, the limit and the return
OuterExit ==
    /\ lattice.pc = "outer"
    /\ lattice.lat > calculate_polygon_bounds(polygon_points)[2]
    /\ lattice' = [lattice EXCEPT !.pc = "returned"]
    /\ result' = [raised |-> "none",
                  value |-> LimitSamples(
                                WithCentroid(lattice.sample_points, polygon_points,
                                             args.min_samples),
                                args.max_samples)]
    /\ UNCHANGED <<polygon_points, predictions, called, args, CROP_DATABASE, analysis>>

LatticeNext ==
    \/ BeginGridSamples
    \/ OuterEnter
    \/ InnerStep
    \/ InnerExit
    \/ OuterExit

\* the interpreter keeps executing the call
LatticeSpec == LatticeInit /\ [][LatticeNext]_vars /\ WF_vars(LatticeNext)

-----------------------------------------------------------------------------
(* Helpers of the properties *)

Reverse(seq) == [i \in 1..Len(seq) |-> seq[Len(seq) + 1 - i]]

\* twice the signed area of the triangle a, b, c, in square ticks
Cross(a, b, c) == (b[1] - a[1]) * (c[2] - a[2]) - (b[2] - a[2]) * (c[1] - a[1])

NextIndex(points, i) == (i % Len(points)) + 1

\* every vertex lies on the same side of every edge: the polygon is convex and
\* does not cross itself
IsConvex(points) ==
    \E s \in {1, -1} :
        \A i, k \in 1..Len(points) :
            s * Cross(points[i], points[NextIndex(points, i)], points[k]) >= 0

HasArea(points) ==
    \E i, k \in 1..Len(points) :
        Cross(points[i], points[NextIndex(points, i)], points[k]) # 0

GridCall == called = "generate_grid_samples"
AggregateCall == called = "aggregate_predictions"

\* the interior lattice points of the current generate_grid_samples call
KeptPoints ==
    GridSamplePoints(polygon_points,
                     GridSpacingFor(polygon_points, args.max_samples, args.min_samples).value)

\* the samples of the current call that point_in_polygon rejects
OutsideSamples ==
    { k \in 1..Len(result.value) :
        ~point_in_polygon(result.value[k], polygon_points).inside }

RECURSIVE SumPercentages(_)
SumPercentages(dist) ==
    IF dist = <<>> THEN 0 ELSE dist[1].percentage + SumPercentages(Tail(dist))

\* the positions of the predictions of class cls
PositionsOf(cls) == { i \in 1..Len(predictions) : LandClassOf(predictions[i]) = cls }

FirstPositionOf(cls) == CHOOSE i \in PositionsOf(cls) : \A j \in PositionsOf(cls) : i <= j

ClassesSeen == { LandClassOf(predictions[i]) : i \in 1..Len(predictions) }

RECURSIVE SumConfidenceIn(_, _)
\* the confidences at the positions, summed value by value
SumConfidenceIn(positions, values) ==
    IF values = {} THEN 0
    ELSE LET v == CHOOSE w \in values : TRUE
         IN  v * Cardinality({i \in positions : ConfidenceOf(predictions[i]) = v})
               + SumConfidenceIn(positions, values \ {v})

SumConfidenceAt(positions) ==
    SumConfidenceIn(positions, { ConfidenceOf(predictions[i]) : i \in positions })

-----------------------------------------------------------------------------
(* C1 .. C10 *)

\* C1: for a polygon of at least 3 vertices and 1 <= min_samples <= max_samples,
\* generate_grid_samples returns a list of at least min_samples and at most
\* max_samples points (at most one more than min_samples when the centroid
\* was added).
C1_SampleCountWithinBounds ==
    (GridCall /\ Len(polygon_points) >= 3
        /\ 1 <= args.min_samples /\ args.min_samples <= args.max_samples)
    => /\ result.raised = "none"
       /\ Len(result.value) >= args.min_samples
       /\ \/ Len(result.value) <= args.max_samples
          \/ Len(result.value) = args.min_samples + 1

\* C2: for a polygon of at least 3 vertices and min_samples <= max_samples, every
\* returned coordinate satisfies point_in_polygon, except at most one, which is
\* then the last element and equals the mean of the vertices.
C2_SamplesInsideOrCentroid ==
    (GridCall /\ Len(polygon_points) >= 3 /\ args.min_samples <= args.max_samples
        /\ result.raised = "none")
    => /\ OutsideSamples \subseteq {Len(result.value)}
       /\ OutsideSamples # {} => result.value[Len(result.value)] = Centroid(polygon_points)

\* a call that kept lattice points and appended a centroid the test rejects
C2_Witness ==
    /\ GridCall /\ Len(polygon_points) >= 3 /\ args.min_samples <= args.max_samples
    /\ result.raised = "none"
    /\ Len(result.value) >= 2
    /\ OutsideSamples = {Len(result.value)}

\* C3 as stated: when the lattice yields n > max_samples interior points, the
\* result is exactly the max_samples points at the indices
\* floor(k*(n-1)/(max_samples-1)), k = 0..max_samples-1, which include the first
\* and the last kept point.
C3_Original ==
    (GridCall /\ Len(polygon_points) >= 3 /\ result.raised = "none"
        /\ args.max_samples >= 1)
    => LET kept == KeptPoints
           n == Len(kept)
           m == args.max_samples
       IN  n > m =>
           /\ Len(result.value) = m
           /\ result.value[1] = kept[1]
           /\ result.value[m] = kept[n]
           /\ m >= 2 => \A k \in 0..(m - 1) :
                           result.value[k + 1] = kept[((k * (n - 1)) \div (m - 1)) + 1]

\* C3 amended: with max_samples >= 2 and n > max_samples interior lattice points
\* the result is the max_samples points at the indices floor(k*(n-1)/(max_samples-1)):
\* pairwise distinct, in their original order, the first and the last kept point
\* among them; with max_samples = 1 it is the first kept point alone, and with
\* max_samples = 0 it is empty.
C3_EvenlySpacedSelection ==
    (GridCall /\ Len(polygon_points) >= 3 /\ result.raised = "none"
        /\ args.min_samples <= args.max_samples)
    => LET kept == KeptPoints
           n == Len(kept)
           m == args.max_samples
           v == result.value
       IN  n > m =>
           /\ Len(v) = m
           /\ m = 1 => v = <<kept[1]>>
           /\ m >= 2 =>
                /\ \A k \in 0..(m - 1) : v[k + 1] = kept[((k * (n - 1)) \div (m - 1)) + 1]
                /\ v[1] = kept[1]
                /\ v[m] = kept[n]
                /\ \A j, k \in 1..m : j < k => v[j] # v[k]

\* a down-sampling that drops points from the middle of the kept list
C3_Witness ==
    /\ GridCall /\ Len(polygon_points) >= 3 /\ result.raised = "none"
    /\ args.min_samples <= args.max_samples
    /\ args.max_samples >= 3
    /\ Len(KeptPoints) >= args.max_samples + 2
    /\ Len(result.value) = args.max_samples

\* C4: for a polygon of fewer than 3 points the area functions and
\* calculate_polygon_perimeter return 0 and generate_grid_samples returns the
\* empty list.
C4_DegenerateYieldsZero ==
    Len(polygon_points) < 3 =>
        /\ called \in {"estimate_polygon_area_km2", "calculate_polygon_area"} => result = 0
        /\ called = "calculate_polygon_perimeter" => result = 0
        /\ GridCall => result = [raised |-> "none", value |-> <<>>]

C6_CentroidInsideConvex ==
    (called = "point_in_polygon" /\ Len(polygon_points) >= 3
        /\ IsConvex(polygon_points) /\ HasArea(polygon_points)
        /\ args.point = Centroid(polygon_points))
    => result = [raised |-> "none", inside |-> TRUE]

\* the centroid of a convex quadrilateral with horizontal and vertical edges
C6_Witness ==
    /\ called = "point_in_polygon" /\ Len(polygon_points) = 4
    /\ IsConvex(polygon_points) /\ HasArea(polygon_points)
    /\ args.point = Centroid(polygon_points)
    /\ \E i \in 1..4 : polygon_points[i][1] = polygon_points[NextIndex(polygon_points, i)][1]
    /\ \E i \in 1..4 : polygon_points[i][2] = polygon_points[NextIndex(polygon_points, i)][2]
    /\ result.inside

\* C7: aggregate_predictions of the empty list returns dominant_class "Unknown",
\* confidence 0.0, an empty class_distribution and sample_count 0, and does not
\* raise.
C7_EmptyYieldsSentinel ==
    (AggregateCall /\ predictions = <<>>)
    => result = [dominant_class |-> "Unknown", confidence |-> 0,
                 class_distribution |-> <<>>, sample_count |-> 0]

C7_Witness == AggregateCall /\ predictions = <<>>

\* C8 as stated: for every non-empty list the percentages of class_distribution
\* sum to within 0.1 of 100.
C8_Original ==
    (AggregateCall /\ predictions # <<>>)
    => Abs(SumPercentages(result.class_distribution) - 10000) <= 10

\* C8 amended: for every non-empty list the percentages sum to within 0.005 times
\* the number of distinct classes of 100 (so within 0.1 when there are at most
\* 20 distinct classes).
C8_PercentagesSumNear100 ==
    (AggregateCall /\ predictions # <<>>)
    => 2 * Abs(SumPercentages(result.class_distribution) - 10000)
          <= Len(result.class_distribution)

\* a distribution whose rounded percentages do not sum to 100
C8_Witness ==
    /\ AggregateCall /\ predictions # <<>>
    /\ SumPercentages(result.class_distribution) # 10000

\* C9: the dominant_class has a maximal count, and among the classes of maximal
\* count it is the one that occurs first in the list.
C9_DominantIsFirstMaximal ==
    (AggregateCall /\ predictions # <<>>)
    => LET d == result.dominant_class
       IN  /\ d \in ClassesSeen
           /\ \A c \in ClassesSeen :
                /\ Cardinality(PositionsOf(c)) <= Cardinality(PositionsOf(d))
                /\ (c # d /\ Cardinality(PositionsOf(c)) = Cardinality(PositionsOf(d)))
                      => FirstPositionOf(d) < FirstPositionOf(c)

\* two classes share the maximal count
C9_Witness ==
    /\ AggregateCall /\ predictions # <<>>
    /\ \E c \in ClassesSeen :
          /\ c # result.dominant_class
          /\ Cardinality(PositionsOf(c)) = Cardinality(PositionsOf(result.dominant_class))

\* C10: the confidence is the mean of the confidences of the samples of the
\* dominant class, rounded to 3 decimals; A,A,A,B,C with 0.9,0.8,0.85,0.7,0.6
\* give dominant A, confidence 0.85 and 60.0 percent for A.
C10_ConfidenceOfDominantClass ==
    (AggregateCall /\ predictions # <<>>)
    => LET own == PositionsOf(result.dominant_class)
       IN  /\ result.confidence = RoundHalfEven(SumConfidenceAt(own), Cardinality(own))
           /\ predictions = scenario_predictions =>
                /\ result.dominant_class = "A"
                /\ result.confidence = 850
                /\ result.class_distribution[1] =
                      [cls |-> "A", percentage |-> 6000, count |-> 3, avg_confidence |-> 850]

\* the scenario, where the mean over all five samples would be 0.77
C10_Witness ==
    /\ AggregateCall /\ predictions = scenario_predictions
    /\ result.confidence # RoundHalfEven(ConfidenceSumAll(predictions), Len(predictions))

-----------------------------------------------------------------------------
(* C11 .. C20 *)

RECURSIVE SumCounts(_)
\* the sum of the per-class counts of a class_distribution
SumCounts(dist) ==
    IF dist = <<>> THEN 0 ELSE dist[1].count + SumCounts(Tail(dist))

\* the requests of analyze_location whose batch has been aggregated
Aggregated == { r \in Serving : Request(r).aggregate_calls > 0 }

\* C11: aggregate_predictions reports sample_count equal to the number of
\* predictions it was given, which is the sum of the per-class counts; in the
\* polygon pipeline that is the number of predictions the batch returned, at
\* most the number of sample coordinates and lower when predictions failed.
C11_SampleCountIsPredictionCount ==
    /\ AggregateCall =>
          /\ result.sample_count = Len(predictions)
          /\ SumCounts(result.class_distribution) = Len(predictions)
    /\ \A r \in Aggregated :
          /\ Request(r).aggregated.sample_count = Len(Request(r).batch_predictions)
          /\ Request(r).area_info.sample_count = Len(Request(r).batch_predictions)
          /\ SumCounts(Request(r).aggregated.class_distribution)
                = Len(Request(r).batch_predictions)
          /\ Len(Request(r).batch_predictions) <= Len(Request(r).sample_coords)

\* a polygon analysis answered from a batch in which a prediction failed
C11_Witness ==
    \E r \in Serving :
        /\ Request(r).pc = "done"
        /\ Len(Request(r).batch_predictions) = Len(Request(r).sample_coords) - 1
        /\ Request(r).result.area_info.sample_count = Len(Request(r).sample_coords) - 1
        /\ Request(r).result.area_info.sample_count >= 1

\* a get_crop_suggestions call that returned from its try block
NormalPath == called = "get_crop_suggestions" /\ "market_insights" \in DOMAIN result

\* a get_crop_suggestions call answered by _get_fallback_suggestions
FallbackPath == called = "get_crop_suggestions" /\ "status" \in DOMAIN result

\* the contexts and the eligible crops of the request req
ClimateOf(req) == _analyze_climate(req.lat, req.weather_data, req.crop_history)
SoilOf(req) == _analyze_soil_from_land_class(req.land_class)
EligibleCrops(db, req) ==
    CropScores(db, ClimateOf(req), SoilOf(req), req.farm_size_hectares, req.risk_tolerance)

\* 0.35*climateScore + 0.35*soilScore + 0.30*riskScore before rounding, in millionths
UnroundedSuitability(crop_data, req) ==
    SuitabilityScore(_calculate_climate_score(crop_data, ClimateOf(req)),
                     _calculate_soil_score(crop_data, SoilOf(req)),
                     _calculate_risk_score(crop_data, req.risk_tolerance))

\* the crop names of the top_suggestions of the current call
ListedNames == { result.top_suggestions[k].crop_name : k \in 1..Len(result.top_suggestions) }

ScoredEligible ==
    IF IsNumber(ClimateOf(args).avg_temperature)
      THEN EligibleCrops(CROP_DATABASE, args) ELSE <<>>

\* top_suggestions of the current call lists at most 10 distinct crops of
\* eligible, by non-increasing profit_score, ranked 1..n, and no crop of eligible
\* that is left out has a higher profit_score than a listed one
RankedAmong(eligible) ==
    LET top == result.top_suggestions
        n == Len(top)
        names == [e \in 1..Len(eligible) |-> eligible[e].crop_data.name]
        Listed(e) == \E k \in 1..n : top[k].crop_name = names[e]
        ProfitOf(k) ==
            eligible[CHOOSE e \in 1..Len(eligible) : names[e] = top[k].crop_name].profit_score
    IN  /\ n <= 10
        /\ \A k \in 1..n :
              /\ top[k].rank = k
              /\ \E e \in 1..Len(eligible) : names[e] = top[k].crop_name
        /\ \A j, k \in 1..n : j # k => top[j].crop_name # top[k].crop_name
        /\ \A k \in 1..(n - 1) : ProfitOf(k) >= ProfitOf(k + 1)
        /\ \A e \in 1..Len(eligible) :
              ~Listed(e) => \A k \in 1..n : eligible[e].profit_score <= ProfitOf(k)

ScoreCall == called = "_score_crop"

\* C14: for every crop profile, climate context, soil context and risk-tolerance
\* string, known or unknown, the climate, soil and risk scores and the combined
\* suitability score each lie in [0, 1], before rounding and as returned.
C14_ScoresWithinUnitInterval ==
    ScoreCall =>
        LET climate_score ==
                _calculate_climate_score(args.crop_data, ClimateOf(args.request))
            soil_score == _calculate_soil_score(args.crop_data, SoilOf(args.request))
            risk_score == _calculate_risk_score(args.crop_data, args.request.risk_tolerance)
        IN  /\ climate_score \in 0..10000
            /\ soil_score \in 0..10000
            /\ risk_score \in 0..10000
            /\ SuitabilityScore(climate_score, soil_score, risk_score) \in 0..1000000
            /\ result.climate_score \in 0..100
            /\ result.soil_score \in 0..100
            /\ result.risk_score \in 0..100
            /\ result.suitability_score \in 0..100

\* a crop scored on a temperature so far from its range that the temperature
\* term is held at 0, for a risk tolerance the matrix does not know
C14_Witness ==
    /\ ScoreCall
    /\ args.request.risk_tolerance = "aggressive"
    /\ result.risk_score = 70
    /\ ClimateOf(args.request).avg_temperature.num
          > args.crop_data.optimal_temp_range[2] * 10 + 80
    /\ TemperatureScore(args.crop_data, ClimateOf(args.request).avg_temperature.num) = 0

\* a part of the result that is an explicit "insufficient data" notice: the form
\* _generate_rotation_plan gives it, {"recommendation": "Insufficient data ..."}
InsufficientData(part) == DOMAIN part = {"recommendation"}

\* a get_crop_suggestions call whose scoring did not raise and passed on fewer
\* than 2 crops from the suitability floor
BelowTwoCrops ==
    /\ called = "get_crop_suggestions"
    /\ IsNumber(ClimateOf(args).avg_temperature)
    /\ Len(EligibleCrops(CROP_DATABASE, args)) < 2

NoCropClearsFloor ==
    /\ called = "get_crop_suggestions"
    /\ IsNumber(ClimateOf(args).avg_temperature)
    /\ EligibleCrops(CROP_DATABASE, args) = <<>>

C17_GridSamplesTotal ==
    (GridCall /\ 0 <= args.min_samples /\ args.min_samples <= args.max_samples)
        => result.raised = "none"

\* the crop suggestions of every finished analysis are those the catalog of the
\* process start gives for the request's own data
SuggestionsFromShippedCatalog ==
    \A r \in Serving :
        Request(r).pc = "done" =>
            Request(r).result.crop_suggestions = CropSuggestionsOf(ShippedCatalog, Request(r))

\* C19: the crop catalog is never modified: no step of any get_crop_suggestions
\* call, of a single call, of the calls of concurrent requests interleaved at
\* their awaits, or of a call that ends in the fallback path, changes an entry
\* of CROP_DATABASE, so a request's result never depends on another request.
C19_CatalogNeverModified ==
    /\ [][CROP_DATABASE' = CROP_DATABASE]_vars
    /\ [](called = "analyze_location" => CROP_DATABASE = ShippedCatalog)
    /\ []SuggestionsFromShippedCatalog

\* two concurrent analyses both answered, with different crop suggestions, and
\* the catalog as shipped
C19_Witness ==
    /\ called = "analyze_location"
    /\ \A r \in Serving : Request(r).pc = "done"
    /\ analysis._crop_suggestion_service = "CropSuggestionService"
    /\ DOMAIN Request(1).result.crop_suggestions # {}
    /\ DOMAIN Request(2).result.crop_suggestions # {}
    /\ Request(1).result.crop_suggestions # Request(2).result.crop_suggestions
    /\ CROP_DATABASE = ShippedCatalog

\* the awaits of the polygon branch in the order of the code
StepOrder ==
    { <<"received", "predict_batch">>,
      <<"predict_batch", "get_agricultural_climate_summary">>,
      <<"get_agricultural_climate_summary", "get_crop_history">>,
      <<"get_crop_history", "done">> }

\* request r is past the await of predict_batch
BatchReturned(r) ==
    Request(r).pc \in {"get_agricultural_climate_summary", "get_crop_history", "done"}

\* the state of request r agrees with the order of the steps
InStepOrder(r) ==
    LET req == Request(r)
    IN  /\ req.pc = "received" =>
              /\ req.sample_coords = None /\ req.settled = 0 /\ req.in_flight = <<>>
        /\ req.pc # "received" =>
              /\ req.sample_coords = generate_grid_samples(req.points, 50, 5).value
              /\ req.settled <= Len(req.sample_coords)
        /\ ~BatchReturned(r) =>
              /\ req.aggregate_calls = 0
              /\ req.batch_predictions = None /\ req.aggregated = None
              /\ req.result = None
        /\ BatchReturned(r) =>
              /\ req.aggregate_calls = 1
              /\ req.settled = Len(req.sample_coords)
              /\ req.batch_predictions = req.in_flight
              /\ req.aggregated = aggregate_predictions(req.batch_predictions)
        /\ req.pc # "done" => req.result = None
        /\ req.pc = "done" =>
              /\ req.result.land_class = req.aggregated.dominant_class
              /\ req.result.crop_suggestions # None
              /\ req.result.crop_suggestions.soil_type =
                     _analyze_soil_from_land_class(req.aggregated.dominant_class).primary_type

\* C20: in every polygon analysis the steps happen in order: the sample
\* coordinates are generated, predictions are requested for the whole sample
\* set, aggregate_predictions runs exactly once and only after the batch has
\* returned (every sample's call has ended), and the crop suggestions are
\* computed afterwards from the aggregated dominant class; aggregation never
\* runs on a batch that is still in progress.
C20_PolygonStepsInOrder ==
    /\ [](called = "analyze_location" => \A r \in Serving : InStepOrder(r))
    /\ [][\A r \in Serving :
             /\ Request(r)'.pc # Request(r).pc => <<Request(r).pc, Request(r)'.pc>> \in StepOrder
             /\ Request(r)'.aggregate_calls # Request(r).aggregate_calls =>
                   /\ Request(r).pc = "predict_batch"
                   /\ Request(r).settled = Len(Request(r).sample_coords)
                   /\ Request(r)'.aggregated = aggregate_predictions(Request(r).in_flight)]_vars

\* a polygon analysis answered after a batch in which one sample's call failed,
\* while the batch of the other request is still in progress
C20_Witness ==
    /\ called = "analyze_location"
    /\ Request(1).pc = "done"
    /\ Request(1).aggregate_calls = 1
    /\ Len(Request(1).sample_coords) >= 2
    /\ Len(Request(1).batch_predictions) = Len(Request(1).sample_coords) - 1
    /\ Request(1).result.crop_suggestions # None
    /\ Request(2).pc = "predict_batch"
    /\ Request(2).settled \in 1..(Len(Request(2).sample_coords) - 1)
    /\ Request(2).aggregate_calls = 0

-----------------------------------------------------------------------------
(* C21 .. C30 *)

\* the provider gave no data: weather_data is None or the error record
NoWeatherData(weather_data) ==
    weather_data = None \/ DictGet(weather_data, "status", None) = [str |-> "error"]

\* the crop request of the finished analysis r
CropRequestOf(r) == PolygonCropRequest(Request(r))

\* C21: when the climate provider gives no data (weather_data is None, also
\* after a fetch that raised) and there is no crop history, the climate context
\* used for scoring has avg_temperature 20 and annual_rainfall_mm 800, and crop
\* suggestions are still produced: the analysis is answered with suggestions
\* scored on that context, and a direct call returns from the try block.
C21_DefaultsWithoutClimateData ==
    /\ called = "analyze_location" =>
          \A r \in Serving :
              (/\ Request(r).pc = "done"
               /\ NoWeatherData(Request(r).weather_data)
               /\ Request(r).crop_history = None) =>
                  LET climate == ClimateOf(CropRequestOf(r))
                      soil == SoilOf(CropRequestOf(r))
                  IN  /\ climate.avg_temperature = [num |-> 200]
                      /\ climate.annual_rainfall_mm = 8000
                      /\ Request(r).result.crop_suggestions # None
                      /\ Request(r).result.crop_suggestions.top_suggestions # <<>>
                      /\ Request(r).result.crop_suggestions =
                             CropSuggestionResult(CROP_DATABASE, CropRequestOf(r),
                                 [climate EXCEPT !.avg_temperature = [num |-> 200],
                                                 !.annual_rainfall_mm = 8000], soil)
    /\ (/\ called = "get_crop_suggestions"
        /\ args.weather_data = None /\ args.crop_history = None) =>
          /\ ClimateOf(args).avg_temperature = [num |-> 200]
          /\ ClimateOf(args).annual_rainfall_mm = 8000
          /\ NormalPath
          /\ result = CropSuggestionResult(CROP_DATABASE, args,
                          [ClimateOf(args) EXCEPT !.avg_temperature = [num |-> 200],
                                                  !.annual_rainfall_mm = 8000], SoilOf(args))

\* an analysis answered with suggestions although the weather fetch gave None
\* and the history fetch gave None
C21_Witness ==
    /\ called = "analyze_location"
    /\ \E r \in Serving :
          /\ Request(r).pc = "done"
          /\ Request(r).weather_data = None /\ Request(r).crop_history = None
          /\ Len(Request(r).result.crop_suggestions.top_suggestions) = 10

\* C22: when the climate provider returns an average temperature T (avg_temp_c
\* of the weather summary), the climate context that the pipeline passes to crop
\* scoring has avg_temperature T, and the answer's suggestions are those scored
\* at T; the default 20 is used only when the provider gave no temperature.
C22_ProviderTemperatureUsed ==
    called = "analyze_location" =>
        \A r \in Serving :
            Request(r).pc = "done" =>
                LET weather_data == Request(r).weather_data
                    climate == ClimateOf(CropRequestOf(r))
                    T == IF Truthy(weather_data) /\ "avg_temp_c" \in DOMAIN weather_data
                           THEN weather_data.avg_temp_c ELSE [num |-> 200]
                IN  /\ climate.avg_temperature = T
                    /\ Request(r).result.crop_suggestions =
                           CropSuggestionResult(CROP_DATABASE, CropRequestOf(r),
                               [climate EXCEPT !.avg_temperature = T], SoilOf(CropRequestOf(r)))

\* a _calculate_climate_score call has returned
ClimateScoreCall == called = "_calculate_climate_score"

\* the distance from v to the nearer bound of [lo, hi]; 0 inside the range
DistanceToRange(v, lo, hi) ==
    IF v < lo THEN lo - v ELSE IF v > hi THEN v - hi ELSE 0

\* a component of climateScore in ten-thousandths: 0.4 inside the range (bounds
\* included), else max(0, 0.4 - d/divisor); per_unit is 10000/divisor for d in
\* the unit of v
RangeComponent(v, lo, hi, per_unit) ==
    IF lo <= v /\ v <= hi THEN 4000
    ELSE IF 4000 - DistanceToRange(v, lo, hi) * per_unit > 0
           THEN 4000 - DistanceToRange(v, lo, hi) * per_unit
           ELSE 0

\* C23: for every crop and temperature t the temperature component of
\* climateScore is exactly 0.4 when t lies inside the crop's optimal range
\* (bounds included) and otherwise max(0, 0.4 - d/20), d the distance from t to
\* the nearer bound; the rainfall component follows the same rule with divisor
\* 1000; and 0.2 is added exactly when the climate zone is in the crop's list.
C23_ClimateScoreComponents ==
    ClimateScoreCall =>
        LET crop_data == args.crop_data
            t == args.climate.avg_temperature.num
            rainfall == args.climate.annual_rainfall_mm
            zone_bonus == IF \E k \in 1..Len(crop_data.climate_zones) :
                                 crop_data.climate_zones[k] = args.climate.climate_zone
                            THEN 2000 ELSE 0
        IN  result = RangeComponent(t, crop_data.optimal_temp_range[1] * 10,
                                    crop_data.optimal_temp_range[2] * 10, 50)
                     + RangeComponent(rainfall, crop_data.min_rainfall_mm * 10,
                                      crop_data.max_rainfall_mm * 10, 1)
                     + zone_bonus

\* a score of 0.4 + 0.3 + 0.2: the temperature on the upper bound of the range,
\* the rainfall 100 mm off the range, the zone in the crop's list
C23_Witness ==
    /\ ClimateScoreCall
    /\ args.climate.avg_temperature.num = args.crop_data.optimal_temp_range[2] * 10
    /\ DistanceToRange(args.climate.annual_rainfall_mm, args.crop_data.min_rainfall_mm * 10,
                       args.crop_data.max_rainfall_mm * 10) = 1000
    /\ result = 9000

\* a _calculate_soil_score call has returned
SoilScoreCall == called = "_calculate_soil_score"

\* the list holds a type whose name contains "loam"
HasLoamType(types) == \E k \in 1..Len(types) : ContainsLoam(types[k])

\* the list holds the type
Lists(types, type) == \E k \in 1..Len(types) : types[k] = type

\* T, F and D of soilScore in ten-thousandths
SoilT(crop_types, compatible) ==
    IF \E j \in 1..Len(compatible), k \in 1..Len(crop_types) : compatible[j] = crop_types[k]
      THEN 6000
    ELSE IF HasLoamType(compatible) /\ HasLoamType(crop_types) THEN 3000
    ELSE 0
SoilF(fertility) ==
    CASE fertility = "high" -> 3000 [] fertility = "medium" -> 2000 [] OTHER -> 0
SoilD(crop_types, drainage) ==
    IF \/ Lists(crop_types, "well-drained") /\ drainage \in {"good", "excellent"}
       \/ /\ Lists(crop_types, "waterlogged") /\ ~Lists(crop_types, "well-drained")
          /\ drainage = "poor"
      THEN 1000 ELSE 0

\* C24: for every crop and soil context soilScore = min(1, T + F + D): T is 0.6
\* if the soil's compatible types share an element with the crop's soil types,
\* else 0.3 if both lists hold a type whose name contains "loam", else 0; F is
\* 0.3 / 0.2 / 0 for high / medium / low fertility; D is 0.1 if the crop lists
\* well-drained and the drainage is good or excellent, or if it lists
\* waterlogged (and not well-drained) and the drainage is poor, else 0.
C24_SoilScoreComponents ==
    SoilScoreCall =>
        LET sum == SoilT(args.crop_data.soil_types, args.soil.suitable_for)
                     + SoilF(args.soil.fertility)
                     + SoilD(args.crop_data.soil_types, args.soil.drainage)
        IN  result = IF sum > 10000 THEN 10000 ELSE sum

\* the partial credit: no shared type, a loam type on both sides
C24_Witness ==
    /\ SoilScoreCall
    /\ SoilT(args.crop_data.soil_types, args.soil.suitable_for) = 3000
    /\ result = 3000 + SoilF(args.soil.fertility)
                  + SoilD(args.crop_data.soil_types, args.soil.drainage)

\* the score of the crop profile other in the contexts of the returned ScoreCall
ScoreInSameContexts(other) ==
    _score_crop(other, ClimateOf(args.request), SoilOf(args.request),
                args.request.farm_size_hectares, args.request.risk_tolerance)

\* C25: the profitScore ranking key rewards profit: of two crop profiles with
\* positive investment cost and equal suitabilityScore, the one with both the
\* higher roiPercent and the higher netProfitPerHectare (also when one or both
\* make a loss) has a profitScore at least as high, and a crop with negative
\* net profit has a negative profitScore.
C25_ProfitScoreRewardsProfit ==
    ScoreCall =>
        /\ \A j \in 1..Len(CROP_DATABASE) :
              LET other == ScoreInSameContexts(CROP_DATABASE[j])
              IN  (/\ args.crop_data.investment_cost_inr_per_hectare > 0
                   /\ CROP_DATABASE[j].investment_cost_inr_per_hectare > 0
                   /\ result.suitability_score = other.suitability_score
                   /\ result.roi_percentage > other.roi_percentage
                   /\ result.net_profit_per_hectare > other.net_profit_per_hectare)
                      => result.profit_score >= other.profit_score
        /\ (/\ args.crop_data.investment_cost_inr_per_hectare > 0
            /\ result.net_profit_per_hectare < 0) => result.profit_score < 0

\* the target of the claim's tiers: min_samples below 0.01 km2, min(15,
\* max_samples) below 0.5, min(30, max_samples) below 2.0, max_samples otherwise
ClaimedTarget(area, max_samples, min_samples) ==
    IF area < AreaUnitsPerKm2 \div 100 THEN min_samples
    ELSE IF area < AreaUnitsPerKm2 \div 2 THEN (IF max_samples < 15 THEN max_samples ELSE 15)
    ELSE IF area < 2 * AreaUnitsPerKm2 THEN (IF max_samples < 30 THEN max_samples ELSE 30)
    ELSE max_samples

\* v clamped to [lo, hi]
Clamp(v, lo, hi) == IF v < lo THEN lo ELSE IF v > hi THEN hi ELSE v

\* C26: the grid spacing used by generate_grid_samples is sqrt(area_km2 /
\* target)/111 clamped to [0.0005, 0.01] degrees, with the target of the area's
\* tier; for area <= 0 it is the fixed value 0.001; so for every input a spacing
\* is computed and lies in [0.0005, 0.01].
C26_GridSpacingClamped ==
    (GridCall /\ Len(polygon_points) >= 3) =>
        LET area == estimate_polygon_area_km2(polygon_points)
            target == ClaimedTarget(area, args.max_samples, args.min_samples)
            spacing == GridSpacingFor(polygon_points, args.max_samples, args.min_samples)
        IN  /\ spacing.raised = "none"
            /\ result.raised = "none"
            /\ Units(5) <= spacing.value /\ spacing.value <= Units(100)
            /\ area <= 0 => spacing.value = Units(10)
            /\ (area > 0 /\ target > 0) =>
                  spacing.value =
                      Clamp((Isqrt((area \div 2) \div target) * (TicksPerDegree \div 10000)) \div 111,
                            Units(5), Units(100))

\* an _analyze_soil_from_land_class call has returned
SoilCall == called = "_analyze_soil_from_land_class"

\* the lookup of the claim in its order: the two keywords of a rule, then
\* primary type, fertility and drainage
SoilRules ==
    << <<"forest", "tree", "loamy", "high", "good">>,
       <<"crop", "cultivated", "fertile", "high", "good">>,
       <<"grass", "shrub", "sandy loam", "medium", "good">>,
       <<"water", "flooded", "clay", "medium", "poor">>,
       <<"urban", "built", "disturbed", "low", "variable">>,
       <<"bare", "sparse", "sandy", "low", "excellent">> >>

\* the rules one of whose keywords the label contains, case ignored
MatchingRules(land_class) ==
    { i \in 1..Len(SoilRules) :
        \/ Contains(Lower(Spelling(land_class)), Spelling(SoilRules[i][1]))
        \/ Contains(Lower(Spelling(land_class)), Spelling(SoilRules[i][2])) }

\* C27: soil inference from a land-class label is a first-match keyword lookup,
\* case-insensitive, in the order forest/tree, crop/cultivated, grass/shrub,
\* water/flooded, urban/built, bare/sparse; a label with none of these
\* substrings (the aggregator's "Unknown" too) yields loamy, medium, good; and
\* every label yields a soil context.
C27_SoilFirstMatchLookup ==
    SoilCall =>
        LET matching == MatchingRules(args.land_class)
            first == CHOOSE i \in matching : \A j \in matching : i <= j
        IN  /\ DOMAIN result = {"primary_type", "fertility", "drainage", "suitable_for"}
            /\ result.suitable_for # <<>>
            /\ <<result.primary_type, result.fertility, result.drainage>> =
                   IF matching = {} THEN <<"loamy", "medium", "good">>
                   ELSE <<SoilRules[first][3], SoilRules[first][4], SoilRules[first][5]>>

\* a label in capitals whose later keyword belongs to the earlier rule
C27_Witness ==
    /\ SoilCall
    /\ args.land_class = "Built-up GRASS"
    /\ MatchingRules(args.land_class) = {3, 5}
    /\ result.primary_type = "sandy loam"

\* C28: for every non-empty list of predictions the class_distribution returned
\* by aggregate_predictions is ordered by non-increasing percentage and its
\* first entry is the dominant_class (the tie-break of the ordering and the
\* tie-break of the dominant class agree).
C28_DistributionLedByDominant ==
    (AggregateCall /\ predictions # <<>>) =>
        LET dist == result.class_distribution
        IN  /\ dist # <<>>
            /\ \A k \in 1..(Len(dist) - 1) : dist[k].percentage >= dist[k + 1].percentage
            /\ dist[1].cls = result.dominant_class

\* the bounding box (min_lat, max_lat, min_lng, max_lng) of the polygon
BoundingBox == calculate_polygon_bounds(polygon_points)

\* the call of generate_grid_samples is over
LatticeOver == lattice.pc \in {"returned", "raised"}

\* one step of the loops: the cursors start at the minimum of the bounding box,
\* move up by a spacing of at least 0.0005 degree, leave a loop only beyond the
\* maximum, and the candidate tested lies in the bounding box
LatticeStepAsClaimed ==
    /\ (lattice.pc = "idle" /\ lattice'.pc = "outer") =>
          lattice'.lat = BoundingBox[1]
    /\ (lattice.pc = "outer" /\ lattice'.pc = "inner") =>
          lattice'.lng = BoundingBox[3]
    /\ (lattice.pc = "inner" /\ lattice'.pc = "inner") =>
          /\ lattice.lat >= BoundingBox[1] /\ lattice.lat <= BoundingBox[2]
          /\ lattice.lng >= BoundingBox[3] /\ lattice.lng <= BoundingBox[4]
          /\ lattice'.lng > lattice.lng
          /\ lattice'.lng - lattice.lng >= min_spacing
    /\ (lattice.pc = "inner" /\ lattice'.pc = "outer") =>
          /\ lattice.lng > BoundingBox[4]
          /\ lattice'.lat > lattice.lat
          /\ lattice'.lat - lattice.lat >= min_spacing
    /\ (lattice.pc = "outer" /\ lattice'.pc = "returned") =>
          lattice.lat > BoundingBox[2]

\* C29: for every polygon of at least 3 vertices the loops of
\* generate_grid_samples terminate: the cursors start at the minimum of the
\* bounding box, strictly increase by a spacing of at least 0.0005 degree on
\* every step, stop once beyond the maximum, and every candidate visited lies
\* in the bounding box
C29_LatticeTerminates ==
    /\ <>(Len(polygon_points) < 3 \/ LatticeOver)
    /\ [][LatticeStepAsClaimed]_vars

\* a get_crop_suggestions call on the catalog as shipped whose temperature is a
\* number, so that the scoring does not raise
ShippedCatalogCall ==
    /\ called = "get_crop_suggestions"
    /\ CROP_DATABASE = ShippedCatalog
    /\ IsNumber(ClimateOf(args).avg_temperature)

\* C30: with the shipped catalog, for every latitude, land-class label, numeric
\* temperature, rainfall and risk-tolerance string at least 10 crops clear the
\* suitability floor: get_crop_suggestions returns from its try block with
\* exactly 10 top suggestions and a rotation plan of 3 crops, never the
\* outcome of no viable crop or of fewer than 2 crops
C30_TenCropsClearFloor ==
    ShippedCatalogCall =>
        /\ Len(EligibleCrops(CROP_DATABASE, args)) >= 10
        /\ NormalPath
        /\ Len(result.top_suggestions) = 10
        /\ ~InsufficientData(result.crop_rotation_plan)
        /\ Len(result.crop_rotation_plan.sequence) = 3

\* the call least favourable to the crops: 1000 degrees, 120000 mm of rain, a
\* water body in the cold zone and a risk tolerance the matrix does not know;
\* some crop is passed on with a suitability of no more than 0.4
C30_Witness ==
    /\ ShippedCatalogCall
    /\ ClimateOf(args).avg_temperature.num = 10000
    /\ ClimateOf(args).annual_rainfall_mm = 1200000
    /\ ClimateOf(args).climate_zone = "cold"
    /\ args.land_class = "Water"
    /\ args.risk_tolerance = "aggressive"
    /\ Len(result.top_suggestions) = 10
    /\ \E i \in 1..Len(EligibleCrops(CROP_DATABASE, args)) :
          EligibleCrops(CROP_DATABASE, args)[i].suitability_score <= 40

=============================================================================
